---------------------------- MODULE Spec2Model ----------------------------
(***************************************************************************)
(* Model of the docstring type-inference engine of vttools/scrape.py.      *)
(* A Python str is a sequence of one-character strings; Python None, where *)
(* a category is expected, is the string "None".                           *)
(***************************************************************************)
EXTENDS Integers, Sequences, FiniteSets, TLC

(***************************************************************************)
(* Characters                                                              *)
(***************************************************************************)
LowerMap ==
  [c \in {"A", "B", "C", "D", "E", "F", "G", "H", "I", "J", "K", "L", "M", "N", "O", "P", "Q", "R", "S", "T", "U", "V", "W", "X", "Y", "Z"} |->
     CASE c = "A" -> "a" [] c = "B" -> "b" [] c = "C" -> "c" [] c = "D" -> "d"
       [] c = "E" -> "e" [] c = "F" -> "f" [] c = "G" -> "g" [] c = "H" -> "h"
       [] c = "I" -> "i" [] c = "J" -> "j" [] c = "K" -> "k" [] c = "L" -> "l"
       [] c = "M" -> "m" [] c = "N" -> "n" [] c = "O" -> "o" [] c = "P" -> "p"
       [] c = "Q" -> "q" [] c = "R" -> "r" [] c = "S" -> "s" [] c = "T" -> "t"
       [] c = "U" -> "u" [] c = "V" -> "v" [] c = "W" -> "w" [] c = "X" -> "x"
       [] c = "Y" -> "y" [] c = "Z" -> "z"]

Lower(c) == IF c \in DOMAIN LowerMap THEN LowerMap[c] ELSE c

UpperChars == {"A", "B", "C", "D", "E", "F", "G", "H", "I", "J", "K", "L", "M", "N", "O", "P", "Q", "R", "S", "T", "U", "V", "W", "X", "Y", "Z"}
LowerChars == {"a", "b", "c", "d", "e", "f", "g", "h", "i", "j", "k", "l", "m", "n", "o", "p", "q", "r", "s", "t", "u", "v", "w", "x", "y", "z"}
DigitChars == {"0", "1", "2", "3", "4", "5", "6", "7", "8", "9"}

\* the characters \w matches
WordChars == UpperChars \cup LowerChars \cup DigitChars \cup {"_"}

(***************************************************************************)
(* Regular expressions, as the re module evaluates them.  A pattern is a   *)
(* tree; Ends(r, s, i, ic) is the set of offsets at which a match of r     *)
(* that starts at offset i of s can end (ic: the (?i) flag).               *)
(***************************************************************************)
Lit(cs) == <<"lit", cs>>
Cls(S) == <<"cls", S>>
AnyChar == <<"any">>
Cat(rs) == <<"cat", rs>>
Alt(rs) == <<"alt", rs>>
Opt(r) == <<"opt", r>>
Star(r) == <<"star", r>>
Plus(r) == <<"cat", <<r, <<"star", r>> >> >>
Rep(r, n) == <<"cat", [k \in 1..n |-> r]>>
Bol == <<"bol">>
Eol == <<"eol">>
WordBoundary == <<"wb">>

CharEq(c, d, ic) == IF ic THEN Lower(c) = Lower(d) ELSE c = d

IsWordAt(s, k) == k >= 1 /\ k <= Len(s) /\ s[k] \in WordChars

RECURSIVE Ends(_, _, _, _), EndsCat(_, _, _, _, _), EndsStar(_, _, _, _, _)

Ends(r, s, i, ic) ==
  CASE r[1] = "lit" ->
         IF i + Len(r[2]) <= Len(s)
            /\ \A k \in 1..Len(r[2]) : CharEq(s[i + k], r[2][k], ic)
         THEN {i + Len(r[2])} ELSE {}
    [] r[1] = "cls" ->
         IF i < Len(s) /\ \E d \in r[2] : CharEq(s[i + 1], d, ic)
         THEN {i + 1} ELSE {}
    [] r[1] = "any" -> IF i < Len(s) THEN {i + 1} ELSE {}
    [] r[1] = "cat" -> EndsCat(r[2], 1, s, {i}, ic)
    [] r[1] = "alt" -> UNION {Ends(r[2][k], s, i, ic) : k \in 1..Len(r[2])}
    [] r[1] = "opt" -> {i} \cup Ends(r[2], s, i, ic)
    [] r[1] = "star" -> EndsStar(r[2], s, {i}, {i}, ic)
    [] r[1] = "bol" -> IF i = 0 THEN {i} ELSE {}
    [] r[1] = "eol" -> IF i = Len(s) THEN {i} ELSE {}
    [] r[1] = "wb" -> IF IsWordAt(s, i) # IsWordAt(s, i + 1) THEN {i} ELSE {}

EndsCat(rs, k, s, I, ic) ==
  IF k > Len(rs) \/ I = {} THEN I
  ELSE EndsCat(rs, k + 1, s, UNION {Ends(rs[k], s, i, ic) : i \in I}, ic)

EndsStar(r, s, frontier, acc, ic) ==
  LET new == UNION {Ends(r, s, i, ic) : i \in frontier} \ acc
  IN  IF new = {} THEN acc ELSE EndsStar(r, s, new, acc \cup new, ic)

\* pattern.search(s): is there a match starting anywhere in s
Search(r, s, ic) == \E i \in 0..Len(s) : Ends(r, s, i, ic) # {}

(***************************************************************************)
(* str methods                                                             *)
(***************************************************************************)
\* s.strip(chars)
Strip(s, chars) ==
  LET keep == {k \in 1..Len(s) : s[k] \notin chars}
  IN  IF keep = {} THEN <<>>
      ELSE SubSeq(s, CHOOSE k \in keep : \A j \in keep : k <= j,
                     CHOOSE k \in keep : \A j \in keep : k >= j)

\* s.rstrip(chars)
RStrip(s, chars) ==
  LET keep == {k \in 1..Len(s) : s[k] \notin chars}
  IN  IF keep = {} THEN <<>>
      ELSE SubSeq(s, 1, CHOOSE k \in keep : \A j \in keep : k >= j)

\* offsets (0-based) at which sep occurs in s
Occurrences(s, sep) ==
  {i \in 0..(Len(s) - Len(sep)) : \A k \in 1..Len(sep) : s[i + k] = sep[k]}

FirstOcc(s, sep) == CHOOSE i \in Occurrences(s, sep) :
                       \A j \in Occurrences(s, sep) : i <= j

\* s.split(sep, 1) when sep occurs in s: the pair <<left, right>>
Split1(s, sep) ==
  LET i == FirstOcc(s, sep)
  IN  <<SubSeq(s, 1, i), SubSeq(s, i + Len(sep) + 1, Len(s))>>

\* s.split(sep)
RECURSIVE SplitAll(_, _)
SplitAll(s, sep) ==
  IF Occurrences(s, sep) = {} THEN <<s>>
  ELSE LET p == Split1(s, sep) IN <<p[1]>> \o SplitAll(p[2], sep)

(***************************************************************************)
(* The module-level patterns of scrape.py                                  *)
(***************************************************************************)
_OR_REGEX == Cat(<<WordBoundary, Lit(<<"o", "r">>), WordBoundary>>)
_OF_REGEX == Cat(<<WordBoundary, Lit(<<"o", "f">>), WordBoundary>>)
_COMMA_REGEX == Cat(<<WordBoundary, Lit(<<",">>), Opt(Lit(<<" ">>)), WordBoundary>>)

NpPrefix == Opt(Cat(<<Alt(<<Lit(<<"n", "p">>), Lit(<<"n", "u", "m", "p", "y">>)>>), Lit(<<".">>)>>))
Like == Opt(Lit(<<"l", "i", "k", "e">>))

\* the characters of the range [ -_] (0x20 .. 0x5F)
SpaceToUnderscore ==
  {" ", "!", "\"", "#", "$", "%", "&", "'", "(", ")", "*", "+", ",", "-", ".", "/", ":", ";", "<", "=", ">", "?", "@", "[", "]", "^", "_"} \cup {"\\"} \cup DigitChars \cup UpperChars

RE_object == Cat(<<Bol, Alt(<<Lit(<<"a", "n", "y">>), Lit(<<"o", "b", "j", "e", "c", "t">>)>>), Eol>>)

RE_array ==
  Cat(<<Bol, Star(AnyChar), NpPrefix, Opt(Lit(<<"n", "d">>)), Lit(<<"a", "r", "r", "a", "y">>),
        Opt(Cls({"_", "-", " ", "s"})), Like>>)

\* the matrix pattern with the shape-tuple group left out
RE_matrix_no_shape ==
  Cat(<<Bol, Star(Lit(<<" ">>)), NpPrefix, Lit(<<"m", "a", "t", "r", "i", "x">>), Opt(Cls({"_", "-", " "})),
        Like, Eol>>)

RE_matrix ==
  Cat(<<Bol,
        Opt(Cat(<<Lit(<<"(">>),
                  Rep(Cat(<<Plus(Cls(UpperChars \cup DigitChars \cup {"."})),
                            Opt(Lit(<<",">>)), Star(Lit(<<" ">>))>>), 2),
                  Opt(Lit(<<" ">>)), Lit(<<")">>)>>)),
        Star(Lit(<<" ">>)), NpPrefix, Lit(<<"m", "a", "t", "r", "i", "x">>), Opt(Cls({"_", "-", " "})), Like,
        Eol>>)

RE_list == Cat(<<Bol, Lit(<<"l", "i", "s", "t">>), Opt(Cls({"-", "_", " "})), Like>>)

RE_tuple == Cat(<<Lit(<<"t", "u", "p", "l", "e">>), Opt(Cls({"-", "_", " "})), Like>>)

RE_seq == Cat(<<Lit(<<"s", "e", "q", "u", "e", "n", "c", "e">>), Opt(Cls({"-", "_", " "})), Like>>)

RE_dtype ==
  Cat(<<Bol,
        Opt(Cat(<<Alt(<<Lit(<<"n", "p">>), Lit(<<"n", "u", "m", "p", "y">>)>>), Cls({".", " "})>>)),
        Lit(<<"d">>), Opt(Lit(<<"a", "t", "a">>)), Opt(Cls({"-", " ", "_"})), Lit(<<"t", "y", "p", "e">>),
        Opt(Cls({"-", "_", " "})),
        Opt(Alt(<<Lit(<<"l", "i", "k", "e">>), Lit(<<"c", "o", "d", "e">>), Lit(<<"s", "p", "e", "c", "i", "f", "i", "e", "r">>)>>))>>)

RE_bool == Cat(<<Bol, Lit(<<"b", "o", "o", "l">>), Opt(Lit(<<"e", "a", "n">>)), Eol>>)

RE_file ==
  Cat(<<Bol, Lit(<<"f", "i", "l", "e">>), Opt(Lit(<<"n", "a", "m", "e">>)), Star(Cls(SpaceToUnderscore)),
        Star(Alt(<<Lit(<<"l", "i", "k", "e">>), Lit(<<"h", "a", "n", "d", "l", "e">>), Lit(<<"o", "b", "j", "e", "c", "t">>)>>)), Eol>>)

RE_scalar == Cat(<<Bol, Alt(<<Lit(<<"s", "c", "a", "l", "a", "r">>), Lit(<<"n", "u", "m", "b", "e", "r">>)>>)>>)

RE_float ==
  Cat(<<Bol,
        Alt(<<Cat(<<NpPrefix, Lit(<<"f", "l", "o", "a", "t">>),
                    Opt(Alt(<<Lit(<<"1", "6">>), Lit(<<"3", "2">>), Lit(<<"6", "4">>),
                              Lit(<<"1", "2", "8">>)>>))>>),
              Lit(<<"d", "o", "u", "b", "l", "e">>), Lit(<<"s", "i", "n", "g", "l", "e">>)>>)>>)

RE_int ==
  Cat(<<Bol, NpPrefix, Opt(Lit(<<"u">>)), Lit(<<"i", "n", "t">>), Opt(Lit(<<"e", "g", "e", "r">>)),
        Opt(Alt(<<Lit(<<"8">>), Lit(<<"1", "6">>), Lit(<<"3", "2">>), Lit(<<"6", "4">>)>>)),
        Opt(Alt(<<Lit(<<" ", "v", "a", "l", "u", "e">>), Lit(<<"s">>)>>)), Eol>>)

RE_complex == Cat(<<Bol, Lit(<<"c", "o", "m", "p", "l", "e", "x">>), Eol>>)

RE_dict == Cat(<<Bol, Lit(<<"d", "i", "c", "t">>), Opt(Lit(<<"i", "o", "n", "a", "r", "y">>)), Eol>>)

RE_str ==
  Cat(<<Bol, Lit(<<"s", "t", "r">>), Opt(Lit(<<"i", "n", "g">>)),
        Opt(Cat(<<Opt(Lit(<<"-">>)), Lit(<<"l", "i", "k", "e">>)>>))>>)

RE_callable ==
  Cat(<<Bol, Alt(<<Cat(<<Lit(<<"f", "u", "n", "c">>), Opt(Lit(<<"t", "i", "o", "n">>))>>),
                   Lit(<<"c", "a", "l", "l", "a", "b", "l", "e">>)>>)>>)

_RE_DICT ==
  [object |-> RE_object, array |-> RE_array, matrix |-> RE_matrix,
   list |-> RE_list, tuple |-> RE_tuple, seq |-> RE_seq, dtype |-> RE_dtype,
   bool |-> RE_bool, file |-> RE_file, scalar |-> RE_scalar,
   float |-> RE_float, int |-> RE_int, complex |-> RE_complex,
   dict |-> RE_dict, str |-> RE_str, callable |-> RE_callable]

\* sig_map with the entry of one category forgotten
sig_map_missing_callable ==
  [object |-> "basic:Variant", array |-> "basic:Variant",
   matrix |-> "basic:Variant", list |-> "basic:List", tuple |-> "basic:List",
   seq |-> "basic:List", dtype |-> "basic:String", bool |-> "basic:Boolean",
   file |-> "basic:File", scalar |-> "basic:Float", float |-> "basic:Float",
   int |-> "basic:Integer", complex |-> "basic:Variant",
   dict |-> "basic:Dictionary", str |-> "basic:String"]

sig_map ==
  [object |-> "basic:Variant", array |-> "basic:Variant",
   matrix |-> "basic:Variant", list |-> "basic:List", tuple |-> "basic:List",
   seq |-> "basic:List", dtype |-> "basic:String", bool |-> "basic:Boolean",
   file |-> "basic:File", scalar |-> "basic:Float", float |-> "basic:Float",
   int |-> "basic:Integer", complex |-> "basic:Variant",
   dict |-> "basic:Dictionary", str |-> "basic:String",
   callable |-> "basic:Variant"]

precedence_list ==
  <<"list", "tuple", "seq", "dict", "array", "matrix", "dtype", "str",
    "scalar", "complex", "float", "int", "bool", "file", "callable", "object">>

None == "None"

\* precedence_list.index(t)
PrecedenceIndex(t) == CHOOSE k \in 1..Len(precedence_list) : precedence_list[k] = t

\* the characters ' .!?-_\t`' that _normalize_type strips (the backquote has no
\* string literal here and occurs in no phrase of the model)
StripJunk == {" ", ".", "!", "?", "-", "_", "\t"}

(***************************************************************************)
(* _normalize_type, _of_proc, _type_precedence                             *)
(***************************************************************************)
\* the walk of precedence_list in _normalize_type: the index of the first
\* category whose pattern is found in the_type, 0 when none is
RECURSIVE FirstMatch(_, _), FirstMatch_stops_early(_, _)

\* the walk ending one entry early
FirstMatch_stops_early(the_type, k) ==
  IF k >= Len(precedence_list) THEN 0
  ELSE IF Search(_RE_DICT[precedence_list[k]], the_type, TRUE) THEN k
  ELSE FirstMatch_stops_early(the_type, k + 1)

FirstMatch(the_type, k) ==
  IF k > Len(precedence_list) THEN 0
  ELSE IF Search(_RE_DICT[precedence_list[k]], the_type, TRUE) THEN k
  ELSE FirstMatch(the_type, k + 1)

RECURSIVE _normalize_type(_), _of_proc(_, _), _type_precedence(_, _)

\* _type_precedence with the comparison of the two ranks reversed
_type_precedence_reversed(left, right) ==
  LET l == _normalize_type(left)
      r == _normalize_type(right)
  IN  IF l = None THEN r
      ELSE IF r = None THEN l
      ELSE IF PrecedenceIndex(l) > PrecedenceIndex(r) THEN l ELSE r

_type_precedence(left, right) ==
  LET l == _normalize_type(left)
      r == _normalize_type(right)
  IN  IF l = None THEN r
      ELSE IF r = None THEN l
      ELSE IF PrecedenceIndex(l) < PrecedenceIndex(r) THEN l ELSE r

\* _of_proc without the test for a container category
_of_proc_any_left(left, right) == _normalize_type(left)

_of_proc(left, right) ==
  LET l == _normalize_type(left)
  IN  IF l \in {"list", "tuple", "array", "matrix", "seq"} THEN l ELSE None

\* _normalize_type splitting at a comma before it walks the patterns
_normalize_type_comma_first(raw) ==
  LET the_type == RStrip(Strip(raw, StripJunk), StripJunk)
      hit == FirstMatch(the_type, 1)
  IN  IF Search(_OR_REGEX, the_type, FALSE)
        THEN LET p == Split1(the_type, <<"o", "r">>) IN _type_precedence(p[1], p[2])
      ELSE IF Search(_OF_REGEX, the_type, FALSE)
        THEN LET p == Split1(the_type, <<"o", "f">>) IN _of_proc(p[1], p[2])
      ELSE IF Search(_COMMA_REGEX, the_type, FALSE)
        THEN LET p == Split1(the_type, <<",">>) IN _type_precedence(p[1], p[2])
      ELSE IF hit # 0 THEN precedence_list[hit]
      ELSE None

_normalize_type(raw) ==
  LET the_type == RStrip(Strip(raw, StripJunk), StripJunk)
      hit == FirstMatch(the_type, 1)
  IN  IF Search(_OR_REGEX, the_type, FALSE)
        THEN LET p == Split1(the_type, <<"o", "r">>) IN _type_precedence(p[1], p[2])
      ELSE IF Search(_OF_REGEX, the_type, FALSE)
        THEN LET p == Split1(the_type, <<"o", "f">>) IN _of_proc(p[1], p[2])
      ELSE IF hit # 0 THEN precedence_list[hit]
      ELSE IF Search(_COMMA_REGEX, the_type, FALSE)
        THEN LET p == Split1(the_type, <<",">>) IN _type_precedence(p[1], p[2])
      ELSE None

(***************************************************************************)
(* _type_optional                                                          *)
(***************************************************************************)
\* _OPTIONAL_RE without its optional comma
_OPTIONAL_RE_no_comma ==
  Cat(<<Star(Lit(<<" ">>)), Opt(Lit(<<"(">>)), Lit(<<"o", "p", "t", "i", "o", "n", "a", "l">>), Opt(Lit(<<")">>))>>)

\* what follows the lazy group (.*?) in _OPTIONAL_RE: ,? *(\(?optional\)?)
_OPTIONAL_RE ==
  Cat(<<Opt(Lit(<<",">>)), Star(Lit(<<" ">>)), Opt(Lit(<<"(">>)), Lit(<<"o", "p", "t", "i", "o", "n", "a", "l">>),
        Opt(Lit(<<")">>))>>)

\* the offsets at which the lazy group 1 of _OPTIONAL_RE can end
OptionalGroupEnds(s) == {k \in 0..Len(s) : Ends(_OPTIONAL_RE, s, k, FALSE) # {}}

_type_optional(raw) ==
  LET type_str == Strip(raw, {" ", "."})
      ks == OptionalGroupEnds(type_str)
  IN  IF ks # {}
      THEN [type_str |-> SubSeq(type_str, 1,
                                CHOOSE k \in ks : \A j \in ks : k <= j),
            is_optional |-> TRUE]
      ELSE [type_str |-> type_str, is_optional |-> FALSE]

(***************************************************************************)
(* _guess_enum_val_type: int(), float() and complex() accept a literal     *)
(* or raise ValueError                                                     *)
(***************************************************************************)
Sign == Opt(Cls({"+", "-"}))
Digits == Plus(Cls(DigitChars))
FloatNumber ==
  Alt(<<Cat(<<Alt(<<Cat(<<Digits,
                          Opt(Cat(<<Lit(<<".">>), Star(Cls(DigitChars))>>))>>),
                    Cat(<<Lit(<<".">>), Digits>>)>>),
              Opt(Cat(<<Lit(<<"e">>), Sign, Digits>>))>>),
        Cat(<<Lit(<<"i", "n", "f">>), Opt(Lit(<<"i", "n", "i", "t", "y">>))>>),
        Lit(<<"n", "a", "n">>)>>)
ComplexBody ==
  Alt(<<Cat(<<Sign, FloatNumber>>),
        Cat(<<Sign, Opt(FloatNumber), Lit(<<"j">>)>>),
        Cat(<<Sign, FloatNumber, Cls({"+", "-"}), Opt(FloatNumber), Lit(<<"j">>)>>)>>)

IntAccepts(s) == Search(Cat(<<Bol, Sign, Digits, Eol>>), s, FALSE)
FloatAccepts(s) == Search(Cat(<<Bol, Sign, FloatNumber, Eol>>), s, TRUE)
ComplexAccepts(s) ==
  Search(Cat(<<Bol, Alt(<<ComplexBody,
                          Cat(<<Lit(<<"(">>), ComplexBody, Lit(<<")">>)>>)>>),
               Eol>>), s, TRUE)

\* _guess_enum_val_type trying float before int
_guess_enum_val_type_float_first(stringy_val) ==
  IF FloatAccepts(stringy_val) THEN <<"f", "l", "o", "a", "t">>
  ELSE IF IntAccepts(stringy_val) THEN <<"i", "n", "t">>
  ELSE IF ComplexAccepts(stringy_val) THEN <<"c", "o", "m", "p", "l", "e", "x">>
  ELSE <<"s", "t", "r">>

_guess_enum_val_type(stringy_val) ==
  IF IntAccepts(stringy_val) THEN <<"i", "n", "t">>
  ELSE IF FloatAccepts(stringy_val) THEN <<"f", "l", "o", "a", "t">>
  ELSE IF ComplexAccepts(stringy_val) THEN <<"c", "o", "m", "p", "l", "e", "x">>
  ELSE <<"s", "t", "r">>

(***************************************************************************)
(* _enum_type                                                              *)
(***************************************************************************)
_ENUM_RE == Cat(<<Lit(<<"{">>), Star(AnyChar), Lit(<<"}">>)>>)

\* the offsets at which a match of _ENUM_RE can start
EnumStarts(s) == {i \in 0..Len(s) : Ends(_ENUM_RE, s, i, FALSE) # {}}

\* m.group(1) of the leftmost match, the greedy .* taking the longest run
EnumGroup(s) ==
  LET i == CHOOSE a \in EnumStarts(s) : \A b \in EnumStarts(s) : a <= b
      js == Ends(_ENUM_RE, s, i, FALSE)
      j == CHOOSE a \in js : \A b \in js : a >= b
  IN  SubSeq(s, i + 2, j - 1)

NoError == "no error"
MixedEnum == "ValueError: Mixed type enum"
NotDiscrete == "ValueError: Enum is not discrete"

\* enum_list stripped of quotes only
EnumList_keeps_spaces(type_str) ==
  LET parts == SplitAll(EnumGroup(type_str), <<",">>)
  IN  [k \in 1..Len(parts) |-> Strip(parts[k], {"'", "\""})]

\* enum_list of _enum_type: the literals of the block
EnumList(type_str) ==
  LET parts == SplitAll(EnumGroup(type_str), <<",">>)
  IN  [k \in 1..Len(parts) |-> Strip(parts[k], {"'", "\"", " "})]

\* _enum_type leaving type_out the raw type string
_enum_type_returns_raw(type_str) ==
  IF EnumStarts(type_str) # {}
  THEN LET enum_list == EnumList(type_str)
           guessed_types == [k \in 1..Len(enum_list) |->
                               _guess_enum_val_type(enum_list[k])]
           type_out == guessed_types[1]
       IN  IF \E k \in 2..Len(guessed_types) : guessed_types[k] # type_out
           THEN [type_out |-> <<>>, is_enum |-> TRUE, enum_list |-> <<>>,
                 enum_list_is_none |-> TRUE, raised |-> MixedEnum]
           ELSE IF type_out \notin {<<"i", "n", "t">>, <<"s", "t", "r">>}
           THEN [type_out |-> <<>>, is_enum |-> TRUE, enum_list |-> <<>>,
                 enum_list_is_none |-> TRUE, raised |-> NotDiscrete]
           ELSE [type_out |-> type_str, is_enum |-> TRUE,
                 enum_list |-> enum_list, enum_list_is_none |-> FALSE,
                 raised |-> NoError]
  ELSE [type_out |-> type_str, is_enum |-> FALSE, enum_list |-> <<>>,
        enum_list_is_none |-> TRUE, raised |-> NoError]

\* the return value of _enum_type, or the ValueError it raises (raised);
\* enum_list_is_none tells the None of the else branch from a list
_enum_type(type_str) ==
  IF EnumStarts(type_str) # {}
  THEN LET enum_list == EnumList(type_str)
           guessed_types == [k \in 1..Len(enum_list) |->
                               _guess_enum_val_type(enum_list[k])]
           type_out == guessed_types[1]
       IN  IF \E k \in 2..Len(guessed_types) : guessed_types[k] # type_out
           THEN [type_out |-> <<>>, is_enum |-> TRUE, enum_list |-> <<>>,
                 enum_list_is_none |-> TRUE, raised |-> MixedEnum]
           ELSE IF type_out \notin {<<"i", "n", "t">>, <<"s", "t", "r">>}
           THEN [type_out |-> <<>>, is_enum |-> TRUE, enum_list |-> <<>>,
                 enum_list_is_none |-> TRUE, raised |-> NotDiscrete]
           ELSE [type_out |-> type_out, is_enum |-> TRUE,
                 enum_list |-> enum_list, enum_list_is_none |-> FALSE,
                 raised |-> NoError]
  ELSE [type_out |-> type_str, is_enum |-> FALSE, enum_list |-> <<>>,
        enum_list_is_none |-> TRUE, raised |-> NoError]

(***************************************************************************)
(* Inputs: the type phrases the functions are applied to                   *)
(***************************************************************************)
MaxWords == 2
MaxDims == 3
MaxLits == 2
MaxOptParts == 3

\* the phrases of n words of W joined by separators of Seps
RECURSIVE Joined(_, _, _)
Joined(W, Seps, n) ==
  IF n = 1 THEN W
  ELSE {p \o s \o w : p \in Joined(W, Seps, n - 1), s \in Seps, w \in W}

\* the concatenations of n parts of P
RECURSIVE Concats(_, _)
Concats(P, n) ==
  IF n = 0 THEN {<<>>} ELSE {p \o q : p \in Concats(P, n - 1), q \in P}

\* the keys of sig_map spelled out as phrases
CategoryName ==
  [object |-> <<"o", "b", "j", "e", "c", "t">>, array |-> <<"a", "r", "r", "a", "y">>, matrix |-> <<"m", "a", "t", "r", "i", "x">>,
   list |-> <<"l", "i", "s", "t">>, tuple |-> <<"t", "u", "p", "l", "e">>, seq |-> <<"s", "e", "q">>,
   dtype |-> <<"d", "t", "y", "p", "e">>, bool |-> <<"b", "o", "o", "l">>, file |-> <<"f", "i", "l", "e">>,
   scalar |-> <<"s", "c", "a", "l", "a", "r">>, float |-> <<"f", "l", "o", "a", "t">>, int |-> <<"i", "n", "t">>,
   complex |-> <<"c", "o", "m", "p", "l", "e", "x">>, dict |-> <<"d", "i", "c", "t">>, str |-> <<"s", "t", "r">>,
   callable |-> <<"c", "a", "l", "l", "a", "b", "l", "e">>]

CanonicalPhrases == {CategoryName[c] : c \in DOMAIN CategoryName}

\* phrases of the test corpus of tests/test_scape.py
TestPhrases ==
  {<<"f", "l", "o", "a", "t", " ", "o", "r", " ", "i", "n", "t">>, <<"s", "c", "a", "l", "a", "r", " ", "o", "r", " ", "t", "u", "p", "l", "e", " ", "o", "f", " ", "s", "c", "a", "l", "a", "r", "s">>, <<"i", "n", "t", " ", "o", "r", " ", "s", "c", "a", "l", "a", "r">>,
   <<"s", "c", "a", "l", "a", "r", " ", "o", "r", " ", "s", "e", "q", "u", "e", "n", "c", "e", " ", "o", "f", " ", "s", "c", "a", "l", "a", "r", "s">>, <<"M", "x", "N", " ", "n", "d", "a", "r", "r", "a", "y">>, <<"i", "n", "t", "e", "g", "e", "r", " ", "v", "a", "l", "u", "e">>,
   <<"a", "a", "r", "d", "v", "a", "r", "k">>, <<"a", "a", "r", "d", "v", "a", "r", "k", " ", "o", "f", " ", "d", "o", "o", "m">>, <<"l", "i", "s", "t", " ", "o", "r", " ", "a", "a", "r", "d", "a", "v", "r", "k">>,
   <<"a", "a", "r", "d", "v", "a", "r", "k", " ", "o", "r", " ", "i", "n", "t", "e", "g", "e", "r">>,
   <<"n", "d", "a", "r", "r", "a", "y", ",", " ", "f", "l", "o", "a", "t">>, <<"a", "r", "r", "a", "y", "_", "l", "i", "k", "e", ",", " ", "s", "h", "a", "p", "e", " ", "(", "M", ",", " ", "N", ")">>, <<"I", "n", "T", "e", "G", "e", "R">>,
   <<"a", "r", "r", "a", "y", "_", "l", "i", "k", "e", " ", "(", "1", "D", " ", "o", "r", " ", "2", "D", ")">>, <<"(", "M", ",", ")", " ", "a", "r", "r", "a", "y", "_", "l", "i", "k", "e">>, <<"n", "p", ".", "m", "a", "t", "r", "i", "x">>,
   <<"l", "i", "s", "t", "-", "l", "i", "k", "e">>, <<"1", "-", "D", " ", "s", "e", "q", "u", "e", "n", "c", "e">>, <<"n", "u", "m", "p", "y", " ", "d", "t", "y", "p", "e">>, <<"b", "o", "o", "l", "e", "a", "n">>,
   <<"f", "i", "l", "e", " ", "h", "a", "n", "d", "l", "e", " ", "o", "b", "j", "e", "c", "t">>, <<"n", "u", "m", "b", "e", "r">>, <<"n", "p", ".", "f", "l", "o", "a", "t", "6", "4">>, <<"n", "u", "m", "p", "y", ".", "u", "i", "n", "t", "8">>,
   <<"d", "i", "c", "t", "i", "o", "n", "a", "r", "y">>, <<"s", "t", "r", "-", "l", "i", "k", "e">>, <<"f", "u", "n", "c", "t", "i", "o", "n", "(", "x", ")", " ", "-", ">", " ", "f">>, <<"a", "n", "y">>,
   <<"a", "r", "r", "a", "y", ",", " ", "o", "p", "t", "i", "o", "n", "a", "l">>, <<"a", "r", "r", "a", "y", " ", "(", "o", "p", "t", "i", "o", "n", "a", "l", ")">>,
   <<"{", "T", "r", "u", "e", ",", " ", "F", "a", "l", "s", "e", ",", " ", "M", "a", "y", "b", "e", "}">>, <<"{", "t", "r", "u", "e", ",", " ", "F", "A", "L", "S", "E", ",", " ", "4", "5", "2", "}">>, <<"{", "1", "2", ".", "5", ",", " ", "5", ".", "3", "}">>,
   <<"{", " ", "(", ".", ".", ".", ",", " ", "M", ",", " ", "M", ")", ",", " ", "(", ".", ".", ".", ",", " ", "M", ",", " ", "K", ")", " ", "}", " ", "a", "r", "r", "a", "y">>}

Words == {<<"i", "n", "t">>, <<"s", "c", "a", "l", "a", "r">>, <<"l", "i", "s", "t">>, <<"t", "u", "p", "l", "e">>, <<"a", "a", "r", "d", "v", "a", "r", "k">>, <<"f", "o", "r">>}
Separators == {<<" ", "o", "r", " ">>, <<" ", "o", "f", " ">>, <<",", " ">>}
CompoundPhrases == UNION {Joined(Words, Separators, n) : n \in 1..MaxWords}

DimTokens == {<<"N">>, <<"3">>, <<".", ".", ".">>}
\* the shape tuples of n dimension tokens, for each n
ShapeTuplesOf ==
  [n \in 0..MaxDims |->
     IF n = 0 THEN {<<"(", ")">>}
     ELSE {<<"(">> \o d \o <<")">> : d \in Joined(DimTokens, {<<",", " ">>}, n)}]
ShapeTuples == UNION {ShapeTuplesOf[n] : n \in 0..MaxDims}
ArrayKeywords == {<<"a", "r", "r", "a", "y">>, <<"a", "r", "r", "a", "y", "_", "l", "i", "k", "e">>, <<"n", "d", "a", "r", "r", "a", "y">>}
MatrixKeywords == {<<"m", "a", "t", "r", "i", "x">>}
ShapePhrases ==
  {s \o <<" ">> \o k : s \in ShapeTuples, k \in ArrayKeywords \cup MatrixKeywords}

OptParts == {<<"a", "r", "r", "a", "y">>, <<"o", "p", "t", "i", "o", "n", "a", "l">>, <<"(", "o", "p", "t", "i", "o", "n", "a", "l", ")">>, <<",", " ">>, <<" ">>, <<".">>}
OptionalPhrases == UNION {Concats(OptParts, n) : n \in 1..MaxOptParts}

Literals == {<<"1">>, <<"4", "5", "2">>, <<"1", "2", ".", "5">>, <<"5", "j">>, <<"T", "r", "u", "e">>, <<"'", "a", "'">>}
EnumBlocks ==
  {<<"{", "}">>} \cup {<<"{">> \o l \o <<"}">> :
                   l \in UNION {Joined(Literals, {<<",", " ">>}, n) : n \in 1..MaxLits}}
EnumPhrases ==
  EnumBlocks \cup {b \o <<" ", "a", "r", "r", "a", "y">> : b \in EnumBlocks} \cup {<<"{", "1">>, <<"1", "}">>, <<"}", "1", "{">>}

\* phrases with "or" / "of" inside a word before the whole word
SubstringPhrases ==
  {<<"f", "o", "r", " ", "i", "n", "t", " ", "o", "r", " ", "a", "a", "r", "d", "v", "a", "r", "k">>, <<"o", "f", "f", "s", "e", "t", " ", "t", "u", "p", "l", "e", " ", "o", "f", " ", "i", "n", "t">>, <<"v", "e", "c", "t", "o", "r", " ", "o", "r", " ", "i", "n", "t">>}

Phrases == CanonicalPhrases \cup TestPhrases \cup CompoundPhrases
             \cup ShapePhrases \cup OptionalPhrases \cup EnumPhrases
             \cup SubstringPhrases

(***************************************************************************)
(* One call of one of the three parsers on one phrase                      *)
(***************************************************************************)
VARIABLES
  type_str,   \* the phrase passed in
  called,     \* the function that was called, "" before the call
  norm_type,  \* what _normalize_type returned
  opt_ret,    \* what _type_optional returned
  enum_ret,   \* what _enum_type returned or raised
  docstring,     \* the parsed docstring: its Parameters and Returns entries
  func,          \* the callable: its argspec and its attributes
  input_ports,   \* the outcome of define_input_ports(docstring, func)
  output_ports,  \* the outcome of define_output_ports(docstring)
  module,        \* the module handed to scrape_module and the call's arguments
  ret,           \* the outcome of scrape_module
  description,   \* the description lines passed to _truncate_description
  word_limit,    \* the word count passed to _truncate_description
  truncated      \* the outcome of _truncate_description

parserVars == <<type_str, called, norm_type, opt_ret, enum_ret>>
portVars == <<docstring, func, input_ports, output_ports>>
moduleVars == <<module, ret>>
truncateVars == <<description, word_limit, truncated>>
vars == <<parserVars, portVars, moduleVars, truncateVars>>

(***************************************************************************)
(* An exception: its class, its message text and the values formatted     *)
(* into the message.  NoException stands for a normal return.             *)
(***************************************************************************)
NoException == [exc |-> "", msg |-> "", args |-> <<>>]
NotCalled == [status |-> "not called", value |-> <<>>, error |-> NoException]
Returned(v) == [status |-> "returned", value |-> v, error |-> NoException]
Raised(e) == [status |-> "raised", value |-> <<>>, error |-> e]

NoDocstring == [Parameters |-> <<>>, Returns |-> <<>>]
NoFunc == [names |-> <<>>, d_vals |-> <<>>, attrs |-> <<>>, inspectable |-> TRUE]
NoModule == [members |-> <<>>, black_list |-> {}, exclude_markers |-> {},
             exclude_private |-> TRUE]

PortsIdle ==
  /\ docstring = NoDocstring
  /\ func = NoFunc
  /\ input_ports = NotCalled
  /\ output_ports = NotCalled

ModuleIdle == module = NoModule /\ ret = NotCalled

TruncateIdle == description = <<>> /\ word_limit = 1 /\ truncated = NotCalled

NoOptRet == [type_str |-> <<>>, is_optional |-> FALSE]
NoEnumRet == [type_out |-> <<>>, is_enum |-> FALSE, enum_list |-> <<>>,
              enum_list_is_none |-> TRUE, raised |-> NoError]

ParsersIdle ==
  /\ type_str = <<>>
  /\ called = ""
  /\ norm_type = None
  /\ opt_ret = NoOptRet
  /\ enum_ret = NoEnumRet

Init ==
  /\ type_str \in Phrases
  /\ called = ""
  /\ norm_type = None
  /\ opt_ret = NoOptRet
  /\ enum_ret = NoEnumRet
  /\ PortsIdle
  /\ ModuleIdle
  /\ TruncateIdle

CallNormalizeType ==
  /\ called = ""
  /\ called' = "_normalize_type"
  /\ norm_type' = _normalize_type(type_str)
  /\ UNCHANGED <<type_str, opt_ret, enum_ret, portVars, moduleVars, truncateVars>>

CallTypeOptional ==
  /\ called = ""
  /\ called' = "_type_optional"
  /\ opt_ret' = _type_optional(type_str)
  /\ UNCHANGED <<type_str, norm_type, enum_ret, portVars, moduleVars, truncateVars>>

CallEnumType ==
  /\ called = ""
  /\ called' = "_enum_type"
  /\ enum_ret' = _enum_type(type_str)
  /\ UNCHANGED <<type_str, norm_type, opt_ret, portVars, moduleVars, truncateVars>>

Next == CallNormalizeType \/ CallTypeOptional \/ CallEnumType

Spec == Init /\ [][Next]_vars

(***************************************************************************)
(* Vocabulary of the properties                                            *)
(***************************************************************************)
\* the sixteen categories of the type lexicon
Lexicon ==
  {"object", "array", "matrix", "list", "tuple", "seq", "dtype", "bool",
   "file", "scalar", "float", "int", "complex", "dict", "str", "callable"}

\* the precedence order of the categories, earliest first
PrecedenceOrder ==
  <<"list", "tuple", "seq", "dict", "array", "matrix", "dtype", "str",
    "scalar", "complex", "float", "int", "bool", "file", "callable", "object">>

Rank(c) == CHOOSE k \in 1..Len(PrecedenceOrder) : PrecedenceOrder[k] = c

Containers == {"list", "tuple", "array", "matrix", "seq"}

\* w occurs in s as a whole word
ContainsWord(s, w) ==
  \E i \in Occurrences(s, w) :
    /\ i = 0 \/ s[i] \notin WordChars
    /\ i + Len(w) = Len(s) \/ s[i + Len(w) + 1] \notin WordChars

Normalized == called = "_normalize_type"

\* the phrase as _normalize_type sees it after trimming its ends
Trimmed == Strip(type_str, StripJunk)

(***************************************************************************)
(* C1: for a phrase with the whole word "or", _normalize_type normalizes   *)
(* the text left and right of the first "or"; it returns the other side    *)
(* when one side is Unresolvable, the side that is earlier in the          *)
(* precedence order when both resolve, and Unresolvable when neither does. *)
(***************************************************************************)
C1_OrPrecedence ==
  /\ (Normalized /\ ContainsWord(type_str, <<"o", "r">>)) =>
       LET p == Split1(Trimmed, <<"o", "r">>)
           l == _normalize_type(p[1])
           r == _normalize_type(p[2])
       IN  /\ l = None => norm_type = r
           /\ r = None => norm_type = l
           /\ (l # None /\ r # None) =>
                /\ norm_type \in {l, r}
                /\ Rank(norm_type) <= Rank(l)
                /\ Rank(norm_type) <= Rank(r)
  /\ (Normalized /\ type_str = <<"f", "l", "o", "a", "t", " ", "o", "r", " ", "i", "n", "t">>) => norm_type = "float"
  /\ (Normalized /\ type_str = <<"i", "n", "t", " ", "o", "r", " ", "s", "c", "a", "l", "a", "r">>) => norm_type = "scalar"
  /\ (Normalized /\ type_str = <<"s", "c", "a", "l", "a", "r", " ", "o", "r", " ", "s", "e", "q", "u", "e", "n", "c", "e", " ", "o", "f", " ", "s", "c", "a", "l", "a", "r", "s">>) =>
       norm_type = "seq"
  /\ (Normalized /\ type_str = <<"l", "i", "s", "t", " ", "o", "r", " ", "a", "a", "r", "d", "a", "v", "r", "k">>) => norm_type = "list"
  /\ (Normalized /\ type_str = <<"a", "a", "r", "d", "v", "a", "r", "k", " ", "o", "r", " ", "i", "n", "t", "e", "g", "e", "r">>) => norm_type = "int"

C1_Witness ==
  Normalized /\ type_str = <<"i", "n", "t", " ", "o", "r", " ", "s", "c", "a", "l", "a", "r">> /\ norm_type = "scalar"

(***************************************************************************)
(* C2 as claimed: each of the sixteen canonical category names normalizes  *)
(* to its own category.                                                    *)
(***************************************************************************)
C2_CanonicalNamesStable ==
  Normalized =>
    \A c \in Lexicon : type_str = CategoryName[c] => norm_type = c

(***************************************************************************)
(* C2 amended: every canonical category name except "seq" normalizes to    *)
(* its own category; "seq" itself is Unresolvable (its pattern asks for    *)
(* the word "sequence").                                                   *)
(***************************************************************************)
C2_CanonicalNamesStableExceptSeq ==
  Normalized =>
    \A c \in Lexicon :
      type_str = CategoryName[c] =>
        norm_type = (IF c = "seq" THEN None ELSE c)

C2_Witness == Normalized /\ type_str = <<"o", "b", "j", "e", "c", "t">> /\ norm_type = "object"

(***************************************************************************)
(* C3: for a phrase with the whole word "of" and no whole word "or",       *)
(* _normalize_type normalizes only the text left of the first "of" and     *)
(* returns that category when it is a container (list, tuple, array,       *)
(* matrix, seq), whatever follows "of", and Unresolvable otherwise.        *)
(***************************************************************************)
OfTails == {<<>>, <<" ", "d", "o", "o", "m">>, <<" ", "i", "n", "t">>, <<" ", "l", "i", "s", "t", ",", " ", "t", "u", "p", "l", "e">>}

MatchingRanks ==
  {k \in 1..Len(PrecedenceOrder) :
     Search(_RE_DICT[PrecedenceOrder[k]], Trimmed, TRUE)}

C4_FirstPatternInPrecedenceOrder ==
  /\ (Normalized /\ ~ContainsWord(type_str, <<"o", "r">>)
        /\ ~ContainsWord(type_str, <<"o", "f">>) /\ MatchingRanks # {}) =>
       /\ Rank(norm_type) \in MatchingRanks
       /\ \A k \in MatchingRanks : Rank(norm_type) <= k
  /\ (Normalized /\ type_str = <<"n", "d", "a", "r", "r", "a", "y", ",", " ", "f", "l", "o", "a", "t">>) => norm_type = "array"
  /\ (Normalized /\ type_str = <<"a", "r", "r", "a", "y", "_", "l", "i", "k", "e", ",", " ", "s", "h", "a", "p", "e", " ", "(", "M", ",", " ", "N", ")">>) =>
       norm_type = "array"
  /\ (Normalized /\ type_str = <<"I", "n", "T", "e", "G", "e", "R">>) => norm_type = "int"

\* a phrase with a comma whose sides would resolve to another category
C4_Witness ==
  Normalized /\ type_str = <<"s", "c", "a", "l", "a", "r", ",", " ", "l", "i", "s", "t">> /\ norm_type = "scalar"

(***************************************************************************)
(* C5 as claimed: behind every parenthesised shape tuple, array, array_like *)
(* and ndarray normalize to array and matrix normalizes to matrix.         *)
(***************************************************************************)
\* the phrases of a shape tuple of n dimension tokens and a keyword
ArrayPhrasesOf ==
  [n \in 0..MaxDims |->
     {s \o <<" ">> \o k : s \in ShapeTuplesOf[n], k \in ArrayKeywords}]

MatrixPhrasesOf ==
  [n \in 0..MaxDims |->
     {s \o <<" ">> \o k : s \in ShapeTuplesOf[n], k \in MatrixKeywords}]

C5_ShapePrefixAnyLength ==
  Normalized =>
    \A n \in 1..MaxDims :
      /\ type_str \in ArrayPhrasesOf[n] => norm_type = "array"
      /\ type_str \in MatrixPhrasesOf[n] => norm_type = "matrix"

(***************************************************************************)
(* C5 amended: behind every parenthesised shape tuple of single-character  *)
(* or "..." dimension tokens, array, array_like and ndarray normalize to   *)
(* array; matrix normalizes to matrix behind a shape tuple of exactly two  *)
(* dimension tokens, and is Unresolvable behind an empty shape tuple, a    *)
(* single one-character token or three or more tokens.                     *)
(***************************************************************************)
C5_ShapePrefixMatrixTwoDims ==
  Normalized =>
    \A n \in 0..MaxDims :
      /\ type_str \in ArrayPhrasesOf[n] => norm_type = "array"
      /\ (n = 2 /\ type_str \in MatrixPhrasesOf[n]) => norm_type = "matrix"
      /\ (n \notin {1, 2} /\ type_str \in MatrixPhrasesOf[n]) =>
           norm_type = None
      /\ (n = 1 /\ type_str \in MatrixPhrasesOf[n]
            /\ type_str # <<"(", ".", ".", ".", ")", " ", "m", "a", "t", "r", "i", "x">>) => norm_type = None

C5_Witness ==
  Normalized /\ type_str = <<"(", ".", ".", ".", ",", " ", "N", ")", " ", "m", "a", "t", "r", "i", "x">> /\ norm_type = "matrix"

(***************************************************************************)
(* C6: _normalize_type returns Unresolvable or a member of the lexicon,    *)
(* and the pattern table, the signature map and the precedence list have   *)
(* the same sixteen category keys.                                         *)
(***************************************************************************)
C6_ClosedLexicon ==
  /\ Normalized => norm_type \in Lexicon \cup {None}
  /\ DOMAIN _RE_DICT = Lexicon
  /\ DOMAIN sig_map = Lexicon
  /\ {precedence_list[k] : k \in 1..Len(precedence_list)} = Lexicon
  /\ Len(precedence_list) = 16
  /\ Cardinality(Lexicon) = 16

C6_Witness ==
  /\ Normalized
  /\ norm_type \in DOMAIN sig_map \cap DOMAIN _RE_DICT
  /\ type_str = <<"t", "u", "p", "l", "e", " ", "o", "f", " ", "i", "n", "t">>

(***************************************************************************)
(* C7 as claimed: _type_optional returns optional = true exactly when the  *)
(* phrase, trimmed of '.' and spaces, ends with "optional" or "optional)". *)
(***************************************************************************)
OptionalCalled == called = "_type_optional"

\* the phrase as _type_optional sees it after trimming its ends
TrimmedOfDots == Strip(type_str, {" ", "."})

EndsWith(s, w) ==
  Len(w) <= Len(s) /\ SubSeq(s, Len(s) - Len(w) + 1, Len(s)) = w

C7_OptionalOnlyWhenTrailing ==
  OptionalCalled =>
    (opt_ret.is_optional <=>
       (EndsWith(TrimmedOfDots, <<"o", "p", "t", "i", "o", "n", "a", "l">>)
          \/ EndsWith(TrimmedOfDots, <<"o", "p", "t", "i", "o", "n", "a", "l", ")">>)))

(***************************************************************************)
(* C7 amended: _type_optional returns optional = true exactly when         *)
(* "optional" occurs anywhere in the phrase trimmed of '.' and spaces,     *)
(* trailing or not; the base is then the text before its first occurrence  *)
(* without a '(' , the spaces and a comma that directly precede it, and    *)
(* the text after it is dropped; when "optional" does not occur the result *)
(* is the trimmed phrase and optional = false.                             *)
(***************************************************************************)
DropLast(s, c) ==
  IF Len(s) > 0 /\ s[Len(s)] = c THEN SubSeq(s, 1, Len(s) - 1) ELSE s

\* s without one closing '(' , the spaces before it and one comma before them
WithoutSeparator(s) ==
  DropLast(RStrip(DropLast(s, "("), {" "}), ",")

C7_OptionalAnywhere ==
  /\ OptionalCalled =>
       LET occ == Occurrences(TrimmedOfDots, <<"o", "p", "t", "i", "o", "n", "a", "l">>)
       IN  /\ opt_ret.is_optional <=> occ # {}
           /\ occ = {} => opt_ret.type_str = TrimmedOfDots
           /\ occ # {} =>
                opt_ret.type_str =
                  WithoutSeparator(SubSeq(TrimmedOfDots, 1,
                                          FirstOcc(TrimmedOfDots, <<"o", "p", "t", "i", "o", "n", "a", "l">>)))
  /\ (OptionalCalled /\ type_str = <<"a", "r", "r", "a", "y", ",", " ", "o", "p", "t", "i", "o", "n", "a", "l">>) =>
       opt_ret = [type_str |-> <<"a", "r", "r", "a", "y">>, is_optional |-> TRUE]
  /\ (OptionalCalled /\ type_str = <<"a", "r", "r", "a", "y", " ", "(", "o", "p", "t", "i", "o", "n", "a", "l", ")">>) =>
       opt_ret = [type_str |-> <<"a", "r", "r", "a", "y">>, is_optional |-> TRUE]
  /\ (OptionalCalled /\ type_str = <<"a", "r", "r", "a", "y">>) =>
       opt_ret = [type_str |-> <<"a", "r", "r", "a", "y">>, is_optional |-> FALSE]

C7_Witness ==
  /\ OptionalCalled
  /\ type_str = <<"o", "p", "t", "i", "o", "n", "a", "l", " ", "a", "r", "r", "a", "y">>
  /\ opt_ret = [type_str |-> <<>>, is_optional |-> TRUE]

(***************************************************************************)
(* C8: _enum_type returns an enum only when all literals of the block have *)
(* the same inferred type and that type is int or str; it raises the       *)
(* mixed-enum error when the inferred types differ and the non-discrete    *)
(* error when they are all float or all complex; a returned value list is  *)
(* never empty.                                                            *)
(***************************************************************************)
EnumCalled == called = "_enum_type"

HasBraceBlock(s) ==
  \E i \in 1..Len(s) : \E j \in (i + 1)..Len(s) : s[i] = "{" /\ s[j] = "}"

AllDigits(s) == Len(s) > 0 /\ \A k \in 1..Len(s) : s[k] \in DigitChars

\* the value type a literal of the phrases has: "True" and "False" are str
LiteralKind(l) ==
  IF AllDigits(l) THEN "int"
  ELSE IF \E k \in 2..(Len(l) - 1) :
            /\ l[k] = "."
            /\ AllDigits(SubSeq(l, 1, k - 1))
            /\ AllDigits(SubSeq(l, k + 1, Len(l)))
         THEN "float"
  ELSE IF Len(l) > 1 /\ l[Len(l)] = "j" /\ AllDigits(SubSeq(l, 1, Len(l) - 1))
         THEN "complex"
  ELSE "str"

\* the literals between the first '{' and the last '}' of s, cut at the
\* commas and trimmed of quotes and spaces
BlockLiterals(s) ==
  LET open == CHOOSE i \in 1..Len(s) :
                s[i] = "{" /\ \A j \in 1..(i - 1) : s[j] # "{"
      close == CHOOSE i \in 1..Len(s) :
                 s[i] = "}" /\ \A j \in (i + 1)..Len(s) : s[j] # "}"
      cuts == {open, close} \cup {k \in (open + 1)..(close - 1) : s[k] = ","}
      cut(n) == CHOOSE x \in cuts : Cardinality({y \in cuts : y < x}) = n - 1
  IN  [n \in 1..(Cardinality(cuts) - 1) |->
         Strip(SubSeq(s, cut(n) + 1, cut(n + 1) - 1), {"'", "\"", " "})]

BlockKinds(s) ==
  {LiteralKind(BlockLiterals(s)[n]) : n \in 1..Len(BlockLiterals(s))}

C8_EnumUniformAndDiscrete ==
  /\ (EnumCalled /\ HasBraceBlock(type_str)) =>
       LET kinds == BlockKinds(type_str)
       IN  /\ enum_ret.raised = NoError =>
                /\ Cardinality(kinds) = 1
                /\ kinds \subseteq {"int", "str"}
                /\ ~enum_ret.enum_list_is_none
                /\ Len(enum_ret.enum_list) > 0
           /\ Cardinality(kinds) > 1 => enum_ret.raised = MixedEnum
           /\ (kinds = {"float"} \/ kinds = {"complex"}) =>
                enum_ret.raised = NotDiscrete
  /\ (EnumCalled /\ type_str = <<"{", "T", "r", "u", "e", ",", " ", "F", "a", "l", "s", "e", ",", " ", "M", "a", "y", "b", "e", "}">>) =>
       enum_ret.raised = NoError
  /\ (EnumCalled /\ type_str = <<"{", "t", "r", "u", "e", ",", " ", "F", "A", "L", "S", "E", ",", " ", "4", "5", "2", "}">>) =>
       enum_ret.raised = MixedEnum
  /\ (EnumCalled /\ type_str = <<"{", "1", "2", ".", "5", ",", " ", "5", ".", "3", "}">>) =>
       enum_ret.raised = NotDiscrete

C8_Witness ==
  /\ EnumCalled
  /\ type_str = <<"{", "1", ",", " ", "4", "5", "2", "}">>
  /\ enum_ret.raised = NoError
  /\ enum_ret.is_enum

(***************************************************************************)
(* C9: _enum_type reports is_enum = true exactly when the type text has a  *)
(* brace-delimited block; the values are the content of the block split at *)
(* its commas, each literal stripped of quotes and spaces, in source       *)
(* order; without a block it returns (raw, false, none).                   *)
(***************************************************************************)
C9_EnumValuesInSourceOrder ==
  /\ (EnumCalled /\ enum_ret.raised = NoError) =>
       /\ enum_ret.is_enum <=> HasBraceBlock(type_str)
       /\ HasBraceBlock(type_str) =>
            /\ ~enum_ret.enum_list_is_none
            /\ enum_ret.enum_list = BlockLiterals(type_str)
       /\ ~HasBraceBlock(type_str) =>
            /\ enum_ret.type_out = type_str
            /\ enum_ret.enum_list_is_none
  /\ (EnumCalled /\ type_str = <<"{", "T", "r", "u", "e", ",", " ", "F", "a", "l", "s", "e", ",", " ", "M", "a", "y", "b", "e", "}">>) =>
       /\ enum_ret.is_enum
       /\ enum_ret.enum_list = <<<<"T", "r", "u", "e">>, <<"F", "a", "l", "s", "e">>, <<"M", "a", "y", "b", "e">>>>

C9_Witness ==
  /\ EnumCalled
  /\ type_str = <<"{", "'", "a", "'", ",", " ", "T", "r", "u", "e", "}", " ", "a", "r", "r", "a", "y">>
  /\ enum_ret.enum_list = <<<<"a">>, <<"T", "r", "u", "e">>>>

(***************************************************************************)
(* C10 as claimed: for a valid enum (literals that are all int or all str)  *)
(* the first component of the result of _enum_type is the raw type string. *)
(***************************************************************************)
C10_FirstComponentIsRaw ==
  (EnumCalled /\ enum_ret.raised = NoError /\ enum_ret.is_enum
     /\ \A k \in 1..Len(enum_ret.enum_list) : enum_ret.enum_list[k] # <<>>) =>
    enum_ret.type_out = type_str

(***************************************************************************)
(* C10 amended: for a valid enum the first component of the result of      *)
(* _enum_type is the common inferred type of the literals, 'int' or 'str', *)
(* not the raw type string.                                                *)
(***************************************************************************)
KindName == [int |-> <<"i", "n", "t">>, str |-> <<"s", "t", "r">>, float |-> <<"f", "l", "o", "a", "t">>,
             complex |-> <<"c", "o", "m", "p", "l", "e", "x">>]

C10_FirstComponentIsLiteralType ==
  (EnumCalled /\ enum_ret.raised = NoError /\ enum_ret.is_enum) =>
    /\ enum_ret.type_out \in {<<"i", "n", "t">>, <<"s", "t", "r">>}
    /\ enum_ret.type_out # type_str
    /\ \A k \in 1..Len(enum_ret.enum_list) :
         KindName[LiteralKind(enum_ret.enum_list[k])] = enum_ret.type_out

C10_Witness ==
  /\ EnumCalled
  /\ type_str = <<"{", "4", "5", "2", ",", " ", "1", "}">>
  /\ enum_ret.type_out = <<"i", "n", "t">>
  /\ enum_ret.enum_list = <<<<"4", "5", "2">>, <<"1">>>>

(***************************************************************************)
(* define_input_ports and define_output_ports                              *)
(*                                                                         *)
(* A docstring entry is [name, type, desc]: the three fields numpydoc      *)
(* hands over, desc being the list of description lines.  A Python value   *)
(* other than a str is a pair <<type name, text of str(value)>>; a str     *)
(* value is <<"str", its characters>>.  A dict is a function.              *)
(***************************************************************************)
vt_reserved == {<<"d", "o", "m", "a", "i", "n">>, <<"w", "i", "n", "d", "o", "w">>}

PyStrValue(s) == <<"str", s>>

\* str(v)
PyStr(v) == v[2]

\* s.lower()
PyLower(s) == [k \in 1..Len(s) |-> Lower(s[k])]

\* sep.join(list)
RECURSIVE Join(_, _)
Join(list, sep) ==
  IF Len(list) = 0 THEN <<>>
  ELSE IF Len(list) = 1 THEN list[1]
  ELSE list[1] \o sep \o Join(Tail(list), sep)

\* the characters str.strip() removes
Whitespace == {" ", "\t", "\n"}

\* the port names when only the first identifier is taken
PortNames_first_only(the_name) ==
  <<Strip(SplitAll(the_name, <<",">>)[1], Whitespace)>>

\* (_.strip() for _ in the_name.split(','))
PortNames(the_name) ==
  LET parts == SplitAll(the_name, <<",">>)
  IN  [k \in 1..Len(parts) |-> Strip(parts[k], Whitespace)]

\* _truncate_description splitting at runs of spaces
_truncate_description_space_runs(original_description, word_cnt_to_include) ==
  LET short_description == original_description[1]
      sd_words == SelectSeq(SplitAll(short_description, <<" ">>),
                            LAMBDA w : w # <<>>)
  IN  IF Len(sd_words) > word_cnt_to_include
      THEN Join(SubSeq(sd_words, 1, word_cnt_to_include), <<" ">>)
      ELSE short_description

_truncate_description(original_description, word_cnt_to_include) ==
  LET short_description == original_description[1]
      sd_words == SplitAll(short_description, <<" ">>)
  IN  IF Len(sd_words) > word_cnt_to_include
      THEN Join(SubSeq(sd_words, 1, word_cnt_to_include), <<" ">>)
      ELSE short_description

\* the defaults bound to the first argument names instead of the last
_extract_default_vals_leading(pyobj) ==
  IF pyobj.inspectable /\ Len(pyobj.d_vals) > 0
  THEN [nm \in {pyobj.names[k] : k \in 1..Len(pyobj.d_vals)} |->
          pyobj.d_vals[CHOOSE k \in 1..Len(pyobj.d_vals) : pyobj.names[k] = nm]]
  ELSE <<>>

\* dict(zip(names[-len(d_vals):], d_vals)), dict() when getargspec raises
\* TypeError or there are no defaults
_extract_default_vals(pyobj) ==
  IF pyobj.inspectable /\ Len(pyobj.d_vals) > 0
  THEN LET n == Len(pyobj.d_vals)
           off == Len(pyobj.names) - n
       IN  [nm \in {pyobj.names[off + k] : k \in 1..n} |->
              pyobj.d_vals[CHOOSE k \in 1..n :
                             /\ pyobj.names[off + k] = nm
                             /\ \A j \in 1..n :
                                  pyobj.names[off + j] = nm => j <= k]]
  ELSE <<>>

\* _enums_equal comparing the lengths of the lists
_enums_equal_by_length(left, right) == Len(left) = Len(right)

_enums_equal(left, right) ==
  {PyStr(left[k]) : k \in 1..Len(left)} = {PyStr(right[k]) : k \in 1..Len(right)}

short_description_word_count == 4

\* the signatures a default value is not attached to
NonConstantSignatures == {"basic:List", "basic:Variant", "basic:Dictionary"}

(***************************************************************************)
(* The type of one entry, as both functions work it out: the enum block   *)
(* is read from enum_src, a str enum whose values normalize as a type     *)
(* phrase is demoted to that type, anything else is normalized.           *)
(*                                                                         *)
(* CHOOSE r \in {F(v) : v \in {x}} : TRUE is F(x) with x worked out once.  *)
(***************************************************************************)
\* the type of an entry when a str enum is never demoted
EntryTypeOf_keeps_enum(en) ==
  [raised |-> en.raised,
   is_enum |-> en.is_enum,
   enum_list |-> IF en.enum_list_is_none THEN <<>>
                 ELSE [k \in 1..Len(en.enum_list) |->
                         PyStrValue(en.enum_list[k])],
   normed_type |-> IF en.raised # NoError THEN None
                   ELSE _normalize_type(en.type_out)]

EntryTypeOf(en) ==
  LET try_norm == IF en.raised = NoError /\ en.is_enum /\ en.type_out = <<"s", "t", "r">>
                  THEN _normalize_type(Join(en.enum_list, <<" ", "o", "r", " ">>))
                  ELSE None
      demoted == try_norm # None
  IN  [raised |-> en.raised,
       is_enum |-> en.is_enum /\ ~demoted,
       enum_list |-> IF demoted \/ en.enum_list_is_none THEN <<>>
                     ELSE [k \in 1..Len(en.enum_list) |->
                             PyStrValue(en.enum_list[k])],
       normed_type |-> IF en.raised # NoError THEN None
                       ELSE IF demoted THEN try_norm
                       ELSE _normalize_type(en.type_out)]

EntryType(enum_src) ==
  CHOOSE r \in {EntryTypeOf(en) : en \in {_enum_type(enum_src)}} : TRUE

\* the_name, the_type of a Parameters entry after the recovery of a type
\* that numpydoc left in the name field
ColonRecovery(entry) ==
  LET parts == SplitAll(entry.name, <<":">>)
  IN  IF entry.type = <<>> /\ Len(parts) > 1
      THEN [unpacked |-> Len(parts) = 2, the_name |-> parts[1],
            the_type |-> IF Len(parts) >= 2 THEN parts[2] ELSE <<>>]
      ELSE [unpacked |-> TRUE, the_name |-> entry.name,
            the_type |-> entry.type]

\* what define_input_ports works out for one Parameters entry before it
\* loops over the identifiers
ParameterEntry(entry) ==
  LET cr == ColonRecovery(entry)
      opt == _type_optional(cr.the_type)
  IN  [unpacked |-> cr.unpacked,
       the_name |-> cr.the_name,
       the_type |-> cr.the_type,
       the_description |-> entry.desc,
       is_optional |-> opt.is_optional,
       et |-> EntryType(opt.type_str)]

\* the body of the loop over the identifiers of one Parameters entry, for
\* one identifier: the port's dict, or the enum-conflict error
InputPort(port_name, pe, func_, kwarg_defaults) ==
  LET signature == sig_map[pe.et.normed_type]
      attach == /\ port_name \in DOMAIN kwarg_defaults
                /\ signature \notin NonConstantSignatures
      base == [label |-> _truncate_description(pe.the_description,
                                               short_description_word_count),
               docstring |-> Join(pe.the_description, <<"\n">>),
               optional |-> pe.is_optional \/ attach,
               signature |-> signature]
      with_default == IF attach
                      THEN ("default" :> kwarg_defaults[port_name]) @@ base
                      ELSE base
      name == IF port_name \in vt_reserved THEN <<"_">> \o port_name
              ELSE port_name
      has_attr == name \in DOMAIN func_.attrs
      f_enums == func_.attrs[name]
      port_is_enum == pe.et.is_enum \/ has_attr
      port_enum_list == IF has_attr THEN f_enums ELSE pe.et.enum_list
      named == ("name" :> name) @@ with_default
  IN  IF has_attr /\ pe.et.is_enum /\ ~_enums_equal(pe.et.enum_list, f_enums)
      THEN [error |-> [exc |-> "ValueError", msg |-> "_enum_error",
                       args |-> <<pe.the_name, pe.et.enum_list,
                                  Len(pe.et.enum_list), f_enums,
                                  Len(f_enums)>>],
            pdict |-> <<>>]
      ELSE [error |-> NoException,
            pdict |-> IF port_is_enum
                      THEN ("entry_type" :> "enum") @@
                           ("values" :> port_enum_list) @@ named
                      ELSE named]

\* the loop over the identifiers of one Parameters entry, from the k-th on
RECURSIVE InputNames(_, _, _, _, _, _)
InputNames(names, k, acc, pe, func_, kwarg_defaults) ==
  IF k > Len(names) THEN [error |-> NoException, ports |-> acc]
  ELSE IF names[k] = <<>>
  THEN InputNames(names, k + 1, acc, pe, func_, kwarg_defaults)
  ELSE CHOOSE r \in
         {IF p.error.exc # "" THEN [error |-> p.error, ports |-> <<>>]
          ELSE InputNames(names, k + 1, Append(acc, p.pdict), pe, func_,
                          kwarg_defaults) :
            p \in {InputPort(names[k], pe, func_, kwarg_defaults)}} : TRUE

\* that body with the test for an in-place output made after the type of
\* the entry was normalized
InputEntryOf_skips_after_type(entry, pe, func_, kwarg_defaults) ==
  IF ~pe.unpacked
  THEN [error |-> [exc |-> "ValueError", msg |-> "too many values to unpack",
                   args |-> <<>>],
        ports |-> <<>>]
  ELSE IF pe.et.raised # NoError
  THEN [error |-> [exc |-> "ValueError", msg |-> pe.et.raised, args |-> <<>>],
        ports |-> <<>>]
  ELSE IF pe.et.normed_type = None
  THEN [error |-> [exc |-> "AutowrapError",
                   msg |-> "Malformed input type |{}: <{}>|",
                   args |-> <<pe.the_name, pe.the_type>>],
        ports |-> <<>>]
  ELSE IF entry.name \in {<<"o", "u", "t", "p", "u", "t">>, <<"o", "u", "t">>}
  THEN [error |-> NoException, ports |-> <<>>]
  ELSE IF Len(pe.the_description) = 0
  THEN [error |-> [exc |-> "IndexError", msg |-> "list index out of range",
                   args |-> <<>>],
        ports |-> <<>>]
  ELSE InputNames(PortNames(pe.the_name), 1, <<>>, pe, func_, kwarg_defaults)

\* the body of the loop over docstring['Parameters'] for one entry, pe
\* being what was worked out for it
InputEntryOf(entry, pe, func_, kwarg_defaults) ==
  IF entry.name \in {<<"o", "u", "t", "p", "u", "t">>, <<"o", "u", "t">>}
  THEN [error |-> NoException, ports |-> <<>>]
  ELSE IF ~pe.unpacked
  THEN [error |-> [exc |-> "ValueError", msg |-> "too many values to unpack",
                   args |-> <<>>],
        ports |-> <<>>]
  ELSE IF pe.et.raised # NoError
  THEN [error |-> [exc |-> "ValueError", msg |-> pe.et.raised, args |-> <<>>],
        ports |-> <<>>]
  ELSE IF pe.et.normed_type = None
  THEN [error |-> [exc |-> "AutowrapError",
                   msg |-> "Malformed input type |{}: <{}>|",
                   args |-> <<pe.the_name, pe.the_type>>],
        ports |-> <<>>]
  ELSE IF Len(pe.the_description) = 0
  THEN [error |-> [exc |-> "IndexError", msg |-> "list index out of range",
                   args |-> <<>>],
        ports |-> <<>>]
  ELSE InputNames(PortNames(pe.the_name), 1, <<>>, pe, func_, kwarg_defaults)

InputEntry(entry, func_, kwarg_defaults) ==
  CHOOSE r \in {InputEntryOf(entry, pe, func_, kwarg_defaults) :
                  pe \in {ParameterEntry(entry)}} : TRUE

\* the loop over docstring['Parameters'], from the k-th entry on
RECURSIVE InputEntries(_, _, _, _, _)
InputEntries(Parameters, k, acc, func_, kwarg_defaults) ==
  IF k > Len(Parameters) THEN Returned(acc)
  ELSE CHOOSE outcome \in
         {IF r.error.exc # "" THEN Raised(r.error)
          ELSE InputEntries(Parameters, k + 1, acc \o r.ports, func_,
                            kwarg_defaults) :
            r \in {InputEntry(Parameters[k], func_, kwarg_defaults)}} : TRUE

define_input_ports(docstring_, func_) ==
  InputEntries(docstring_.Parameters, 1, <<>>, func_,
               _extract_default_vals(func_))

\* the loop over the identifiers of one Returns entry
RECURSIVE OutputNames(_, _, _, _)
OutputNames(names, k, acc, normed_type) ==
  IF k > Len(names) THEN [error |-> NoException, ports |-> acc]
  ELSE IF names[k] = <<>>
  THEN [error |-> [exc |-> "AutowrapError", msg |-> "A Port with no name",
                   args |-> <<>>],
        ports |-> <<>>]
  ELSE OutputNames(names, k + 1,
                   Append(acc, [name |-> names[k],
                                signature |-> sig_map[normed_type]]),
                   normed_type)

\* that body when the first description line of the entry is read as
\* define_input_ports reads it
OutputEntryOf_reads_description(entry, et) ==
  IF et.raised # NoError
  THEN [error |-> [exc |-> "ValueError", msg |-> et.raised, args |-> <<>>],
        ports |-> <<>>]
  ELSE IF et.normed_type = None
  THEN [error |-> [exc |-> "AutowrapError",
                   msg |-> "Malformed output type |{}: <{}>|",
                   args |-> <<entry.name, entry.type>>],
        ports |-> <<>>]
  ELSE IF Len(entry.desc) = 0
  THEN [error |-> [exc |-> "IndexError", msg |-> "list index out of range",
                   args |-> <<>>],
        ports |-> <<>>]
  ELSE OutputNames(PortNames(entry.name), 1, <<>>, et.normed_type)

\* the body of the loop over docstring['Returns'] for one entry that is
\* not dropped, et being the type worked out for it
OutputEntryOf(entry, et) ==
  IF et.raised # NoError
  THEN [error |-> [exc |-> "ValueError", msg |-> et.raised, args |-> <<>>],
        ports |-> <<>>]
  ELSE IF et.normed_type = None
  THEN [error |-> [exc |-> "AutowrapError",
                   msg |-> "Malformed output type |{}: <{}>|",
                   args |-> <<entry.name, entry.type>>],
        ports |-> <<>>]
  ELSE OutputNames(PortNames(entry.name), 1, <<>>, et.normed_type)

\* the body of that loop dropping the optional entries after their type
\* was normalized
OutputEntry_normalizes_first(entry) ==
  LET r == OutputEntryOf(entry, EntryType(entry.type))
  IN  IF r.error.exc = "" /\ _type_optional(entry.type).is_optional
      THEN [error |-> NoException, ports |-> <<>>]
      ELSE r

\* the body of the loop over docstring['Returns'], for one entry
OutputEntry(entry) ==
  IF _type_optional(entry.type).is_optional
  THEN [error |-> NoException, ports |-> <<>>]
  ELSE CHOOSE r \in {OutputEntryOf(entry, et) :
                       et \in {EntryType(entry.type)}} : TRUE

\* the second loop of define_output_ports, over docstring['Parameters']
RECURSIVE OutputFallback(_, _, _)
OutputFallback(Parameters, k, acc) ==
  IF k > Len(Parameters) THEN Returned(acc)
  ELSE IF PyLower(Parameters[k].name) \in {<<"o", "u", "t", "p", "u", "t">>, <<"o", "u", "t">>}
  THEN CHOOSE outcome \in
         {IF the_type = None
          THEN Raised([exc |-> "AutowrapError", msg |-> "Malformed type",
                       args |-> <<>>])
          ELSE OutputFallback(Parameters, k + 1,
                              Append(acc, [name |-> Parameters[k].name,
                                           signature |-> sig_map[the_type]])) :
            the_type \in {_normalize_type(
                            _type_optional(Parameters[k].type).type_str)}} :
         TRUE
  ELSE OutputFallback(Parameters, k + 1, acc)

\* the loop over docstring['Returns'], from the k-th entry on, and then,
\* with no port in the list, the loop over docstring['Parameters']
RECURSIVE OutputEntries(_, _, _, _)
OutputEntries(Returns, k, acc, Parameters) ==
  IF k > Len(Returns)
  THEN IF Len(acc) < 1 THEN OutputFallback(Parameters, 1, <<>>)
       ELSE Returned(acc)
  ELSE CHOOSE outcome \in
         {IF r.error.exc # "" THEN Raised(r.error)
          ELSE OutputEntries(Returns, k + 1, acc \o r.ports, Parameters) :
            r \in {OutputEntry(Returns[k])}} : TRUE

define_output_ports(docstring_) ==
  OutputEntries(docstring_.Returns, 1, <<>>, docstring_.Parameters)

(***************************************************************************)
(* Inputs: docstrings and callables                                        *)
(***************************************************************************)
MaxParams == 2
MaxReturns == 2

SeqsUpTo(S, n) == UNION {[1..k -> S] : k \in 0..n}

Description == <<<<"T", "h", "e", " ", "t", "e", "m", "p", "e", "r", "a", "t", "u", "r", "e", " ", "o", "f", " ", "t", "h", "e", " ", "p", "o", "r", "r", "i", "d", "g", "e">>, <<"i", "n", " ", "d", "e", "g", "r", "e", "e", "s">>>>
Descriptions == {Description, <<>>}

Entry(name, type) == [name |-> name, type |-> type, desc |-> Description]

\* Parameters entries that are combined into lists of several entries
ParamEntries ==
  { Entry(<<"a">>, <<"i", "n", "t">>),
    Entry(<<"a", ",", " ", "b">>, <<"t", "u", "p", "l", "e">>),
    Entry(<<"d", "o", "m", "a", "i", "n">>, <<"{", "'", "x", "'", ",", " ", "'", "y", "'", "}">>),
    Entry(<<"_", "d", "o", "m", "a", "i", "n">>, <<"i", "n", "t", ",", " ", "o", "p", "t", "i", "o", "n", "a", "l">>),
    Entry(<<"o", "u", "t">>, <<"a", "r", "r", "a", "y">>),
    Entry(<<"b">>, <<"a", "a", "r", "d", "v", "a", "r", "k">>) }

\* Parameters entries that are tried alone: every name with every type
ParamNames ==
  { <<"a">>, <<"b", ",", " ", "b">>, <<"a", ",", " ", ",", " ", "e">>, <<"d", "o", "m", "a", "i", "n">>, <<"w", "i", "n", "d", "o", "w", ",", " ", "d", "o", "m", "a", "i", "n">>, <<"o", "u", "t">>,
    <<"o", "u", "t", "p", "u", "t">>, <<"O", "U", "T">>, <<"e">>, <<"a", ":", "i", "n", "t">>, <<"a", " ", ":", " ", "l", "i", "s", "t", " ", ":", " ", "3">>,
    <<"t", "e", "m", "p", "e", "r", "a", "t", "u", "r", "e", ",", " ", "p", "o", "r", "r", "i", "d", "g", "e">> }

ParamTypes ==
  { <<"i", "n", "t">>, <<"t", "u", "p", "l", "e">>, <<"d", "i", "c", "t", ",", " ", "o", "p", "t", "i", "o", "n", "a", "l">>, <<"a", "a", "r", "d", "v", "a", "r", "k">>,
    <<"a", "a", "r", "d", "v", "a", "r", "k", ",", " ", "o", "p", "t", "i", "o", "n", "a", "l">>, <<"{", "'", "x", "'", ",", " ", "'", "y", "'", "}">>, <<"{", "1", ",", " ", "2", "}">>, <<"{", "a", "r", "r", "a", "y", ",", " ", "s", "c", "a", "l", "a", "r", "}">>,
    <<"{", "1", ",", " ", "x", "}">>, <<"{", "'", "t", "o", "o", " ", "h", "o", "t", "'", ",", " ", "'", "t", "o", "o", " ", "c", "o", "l", "d", "'", ",", " ", "'", "j", "u", "s", "t", " ", "r", "i", "g", "h", "t", "'", "}">>, <<>> }

SingleEntries ==
  { [name |-> n, type |-> t, desc |-> d] :
      n \in ParamNames, t \in ParamTypes, d \in Descriptions }

ParameterLists ==
  SeqsUpTo(ParamEntries, MaxParams) \cup {<<e>> : e \in SingleEntries}

X == PyStrValue(<<"x">>)
Y == PyStrValue(<<"y">>)
Z == PyStrValue(<<"z">>)
One == <<"int", <<"1">>>>
Two == <<"int", <<"2">>>>
PyNone == <<"NoneType", <<"N", "o", "n", "e">>>>
EmptyTuple == <<"tuple", <<"(", ")">>>>

\* callables: the argument names, the default values of the trailing ones
\* and the attributes set on the function object
Funcs ==
  { NoFunc,
    [names |-> <<<<"a">>, <<"b">>, <<"d", "o", "m", "a", "i", "n">>, <<"e">>>>, d_vals |-> <<One, PyNone>>,
     attrs |-> (<<"e">> :> <<X, Y>>), inspectable |-> TRUE],
    [names |-> <<<<"a">>, <<"b">>, <<"e">>, <<"w", "i", "n", "d", "o", "w">>>>,
     d_vals |-> <<One, EmptyTuple, PyStrValue(<<"x">>), PyNone>>,
     attrs |-> (<<"e">> :> <<X, Z>>) @@ (<<"d", "o", "m", "a", "i", "n">> :> <<X, Y>>),
     inspectable |-> TRUE],
    [names |-> <<<<"a">>, <<"e">>>>, d_vals |-> <<One>>,
     attrs |-> (<<"e">> :> <<Y, X, Y>>) @@ (<<"a">> :> <<One, Two>>),
     inspectable |-> TRUE],
    [names |-> <<<<"a">>, <<"b">>>>, d_vals |-> <<One, Two>>,
     attrs |-> (<<"_", "d", "o", "m", "a", "i", "n">> :> <<X, Z>>) @@ (<<"b">> :> <<Two, One>>),
     inspectable |-> FALSE] }

\* an entry without a description line
Undescribed == [name |-> <<"r">>, type |-> <<"i", "n", "t">>, desc |-> <<>>]

\* Returns entries
ReturnEntries ==
  { Undescribed,
    Entry(<<"p", "_", "b", "e", "a", "r", "_", "e", "m", "o", ",", " ", "m", "_", "b", "e", "a", "r", "_", "e", "m", "o", ",", " ", "b", "_", "b", "e", "a", "r", "_", "e", "m", "o">>, <<"s", "t", "r", "i", "n", "g">>),
    Entry(<<"t">>, <<"a", "a", "r", "d", "v", "a", "r", "k", ",", " ", "o", "p", "t", "i", "o", "n", "a", "l">>),
    Entry(<<"u">>, <<"a", "a", "r", "d", "v", "a", "r", "k">>),
    Entry(<<"v", ",", " ">>, <<"l", "i", "s", "t">>),
    Entry(<<"r">>, <<"{", "a", "r", "r", "a", "y", ",", " ", "s", "c", "a", "l", "a", "r", "}">>) }

ReturnLists == SeqsUpTo(ReturnEntries, MaxReturns)

\* Parameters lists that go with the Returns lists
FallbackLists ==
  { <<>>,
    <<Entry(<<"o", "u", "t">>, <<"a", "r", "r", "a", "y">>)>>,
    <<Entry(<<"o", "u", "t", "p", "u", "t">>, <<"a", "a", "r", "d", "v", "a", "r", "k">>)>>,
    <<Entry(<<"O", "u", "t">>, <<"i", "n", "t", ",", " ", "o", "p", "t", "i", "o", "n", "a", "l">>)>>,
    <<Undescribed>>,
    <<Entry(<<"a">>, <<"i", "n", "t">>), Entry(<<"o", "u", "t">>, <<"a", "r", "r", "a", "y">>)>>,
    <<Entry(<<"o", "u", "t">>, <<"a", "r", "r", "a", "y">>), Entry(<<"o", "u", "t", "p", "u", "t">>, <<"i", "n", "t">>)>> }

Docstrings ==
  { [Parameters |-> p, Returns |-> <<>>] : p \in ParameterLists }
  \cup
  { [Parameters |-> p, Returns |-> r] : p \in FallbackLists, r \in ReturnLists }

(***************************************************************************)
(* One call of define_input_ports and one of define_output_ports on the   *)
(* docstring of one callable                                               *)
(***************************************************************************)
InitPorts ==
  /\ docstring \in Docstrings
  /\ func \in (IF docstring.Returns = <<>> THEN Funcs ELSE {NoFunc})
  /\ input_ports = NotCalled
  /\ output_ports = NotCalled
  /\ ParsersIdle
  /\ ModuleIdle
  /\ TruncateIdle

CallDefineInputPorts ==
  /\ input_ports.status = "not called"
  /\ input_ports' = define_input_ports(docstring, func)
  /\ UNCHANGED <<docstring, func, output_ports, parserVars, moduleVars, truncateVars>>

\* scrape_function calls define_output_ports after define_input_ports
CallDefineOutputPorts ==
  /\ input_ports.status # "not called"
  /\ output_ports.status = "not called"
  /\ output_ports' = define_output_ports(docstring)
  /\ UNCHANGED <<docstring, func, input_ports, parserVars, moduleVars, truncateVars>>

NextPorts == CallDefineInputPorts \/ CallDefineOutputPorts

SpecPorts == InitPorts /\ [][NextPorts]_vars

(***************************************************************************)
(* Vocabulary of the claims about the ports                                *)
(***************************************************************************)
InputReturned == input_ports.status = "returned"
InputRaised == input_ports.status = "raised"
OutputReturned == output_ports.status = "returned"
OutputRaised == output_ports.status = "raised"

NonEmpty(list) == SelectSeq(list, LAMBDA x : x # <<>>)

\* the identifiers listed in the name field of an entry
Identifiers(name) ==
  LET fields == SplitAll(name, <<",">>)
  IN  NonEmpty([k \in 1..Len(fields) |-> Strip(fields[k], {" ", "\t", "\n"})])

\* the parameters a docstring declares, in order: each identifier of each
\* Parameters entry that is not an in-place output, with its entry
RECURSIVE DeclaredFrom(_, _)
DeclaredFrom(Parameters, k) ==
  IF k > Len(Parameters) THEN <<>>
  ELSE LET ids == Identifiers(ColonRecovery(Parameters[k]).the_name)
       IN  (IF Parameters[k].name \in {<<"o", "u", "t", "p", "u", "t">>, <<"o", "u", "t">>} THEN <<>>
            ELSE [j \in 1..Len(ids) |-> [id |-> ids[j], entry |-> k]])
           \o DeclaredFrom(Parameters, k + 1)

Declared == DeclaredFrom(docstring.Parameters, 1)

\* the input ports line up with the declared parameters
InputAligned == InputReturned /\ Len(input_ports.value) = Len(Declared)

IsEnumPort(p) ==
  /\ "entry_type" \in DOMAIN p
  /\ p.entry_type = "enum"
  /\ "values" \in DOMAIN p

\* C11: whenever define_input_ports returns, the port of every parameter
\* that has a same-named attribute on the callable is an enum port whose
\* values are exactly the attribute's list, whether or not the docstring
\* declares an enum for it.
C11_AttributeIsAuthoritative ==
  InputAligned =>
    \A k \in 1..Len(Declared) :
      Declared[k].id \in DOMAIN func.attrs =>
        /\ IsEnumPort(input_ports.value[k])
        /\ input_ports.value[k].values = func.attrs[Declared[k].id]


\* what the docstring says about the type of the k-th declared parameter
DeclaredType(k) ==
  LET cr == ColonRecovery(docstring.Parameters[Declared[k].entry])
  IN  EntryType(_type_optional(cr.the_type).type_str)

\* the name under which the port of an identifier is emitted
EmittedName(id) == IF id \in vt_reserved THEN <<"_">> \o id ELSE id

\* the k-th declared parameter has an enum in the docstring that is kept as
\* an enum, and the callable has an attribute under the port's emitted name
HasBothEnums(k) ==
  /\ DeclaredType(k).raised = NoError
  /\ DeclaredType(k).is_enum
  /\ EmittedName(Declared[k].id) \in DOMAIN func.attrs

DocValues(k) == DeclaredType(k).enum_list
AttrValues(k) == func.attrs[EmittedName(Declared[k].id)]
ValueTexts(list) == {PyStr(list[j]) : j \in 1..Len(list)}

EnumConflictRaised == InputRaised /\ input_ports.error.msg = "_enum_error"

\* C12 (as stated): with both a docstring enum and an attribute list, the
\* enum-conflict error is raised exactly when the lengths of the two lists
\* differ: a conflict that is raised comes from lists of different lengths,
\* and after a normal return all such pairs of lists have equal lengths.
C12_ConflictIffLengthsDiffer ==
  /\ EnumConflictRaised =>
       \E k \in 1..Len(Declared) :
         HasBothEnums(k) /\ Len(DocValues(k)) # Len(AttrValues(k))
  /\ InputReturned =>
       \A k \in 1..Len(Declared) :
         HasBothEnums(k) => Len(DocValues(k)) = Len(AttrValues(k))

\* C12 (amended): the enum-conflict error is raised exactly when the two
\* lists differ as sets of str() values, whatever their lengths: a conflict
\* that is raised names a parameter whose two value sets differ and carries
\* both lists with their lengths, and after a normal return all such pairs
\* of lists have the same value set.
C12_ConflictIffValueSetsDiffer ==
  /\ EnumConflictRaised =>
       \E k \in 1..Len(Declared) :
         /\ HasBothEnums(k)
         /\ ValueTexts(DocValues(k)) # ValueTexts(AttrValues(k))
         /\ input_ports.error.args[2] = DocValues(k)
         /\ input_ports.error.args[3] = Len(DocValues(k))
         /\ input_ports.error.args[4] = AttrValues(k)
         /\ input_ports.error.args[5] = Len(AttrValues(k))
  /\ InputReturned =>
       \A k \in 1..Len(Declared) :
         HasBothEnums(k) => ValueTexts(DocValues(k)) = ValueTexts(AttrValues(k))

\* a conflict raised for two lists of the same length
C12_Witness ==
  /\ EnumConflictRaised
  /\ Len(input_ports.error.args[2]) = Len(input_ports.error.args[4])


\* the values a docstring declares to be returned, in order: each
\* identifier of each Returns entry that is not marked optional
RECURSIVE ReturnedFrom(_, _)
ReturnedFrom(Returns, k) ==
  IF k > Len(Returns) THEN <<>>
  ELSE LET ids == Identifiers(Returns[k].name)
       IN  (IF _type_optional(Returns[k].type).is_optional THEN <<>>
            ELSE [j \in 1..Len(ids) |-> [id |-> ids[j], entry |-> k]])
           \o ReturnedFrom(Returns, k + 1)

DeclaredReturns == ReturnedFrom(docstring.Returns, 1)

ReturnType(k) == EntryType(docstring.Returns[DeclaredReturns[k].entry].type)

\* C13: the ports that are returned stand one for one, in the order of the
\* docstring, for the identifiers of the entries: the k identifiers of one
\* name field give k consecutive ports, each named after its identifier
\* and each with the signature of the category of the entry's type.
C13_OnePortPerIdentifier ==
  /\ InputReturned =>
       /\ Len(input_ports.value) = Len(Declared)
       /\ \A k \in 1..Len(Declared) :
            /\ input_ports.value[k].name = EmittedName(Declared[k].id)
            /\ input_ports.value[k].signature =
                 sig_map[DeclaredType(k).normed_type]
  /\ OutputReturned /\ Len(DeclaredReturns) > 0 =>
       /\ Len(output_ports.value) = Len(DeclaredReturns)
       /\ \A k \in 1..Len(DeclaredReturns) :
            /\ output_ports.value[k].name = DeclaredReturns[k].id
            /\ output_ports.value[k].signature =
                 sig_map[ReturnType(k).normed_type]

\* the three bears: one entry, three str ports in the order of the names,
\* followed by the port of the next entry
C13_Witness ==
  /\ OutputReturned
  /\ Len(docstring.Returns) = 2
  /\ docstring.Returns[1].name = <<"p", "_", "b", "e", "a", "r", "_", "e", "m", "o", ",", " ", "m", "_", "b", "e", "a", "r", "_", "e", "m", "o", ",", " ", "b", "_", "b", "e", "a", "r", "_", "e", "m", "o">>
  /\ docstring.Returns[2].name = <<"r">>
  /\ [k \in 1..4 |-> output_ports.value[k].name] =
       <<<<"p", "_", "b", "e", "a", "r", "_", "e", "m", "o">>, <<"m", "_", "b", "e", "a", "r", "_", "e", "m", "o">>, <<"b", "_", "b", "e", "a", "r", "_", "e", "m", "o">>, <<"r">>>>
  /\ \A k \in 1..3 : output_ports.value[k].signature = "basic:String"

\* the Parameters entries the Returns fallback reads: those named output
\* or out, whatever the letter case
InPlaceOutputs ==
  SelectSeq(docstring.Parameters,
            LAMBDA entry : PyLower(entry.name) \in {<<"o", "u", "t", "p", "u", "t">>, <<"o", "u", "t">>})

\* the fallback was taken: a port of the result comes from the Parameters
\* section, or the fallback's own error was raised
FallbackTaken ==
  \/ OutputReturned /\ Len(output_ports.value) > Len(DeclaredReturns)
  \/ OutputRaised /\ output_ports.error.msg = "Malformed type"

\* C14: the Returns fallback is taken only when the Returns section is
\* absent or empty (never for a Returns section with entries, even if all of
\* them are dropped as optional), and it is taken when the section is empty
\* and Parameters has an in-place output entry.
C14_FallbackIffNoReturns ==
  /\ FallbackTaken => docstring.Returns = <<>>
  /\ (output_ports.status # "not called" /\ docstring.Returns = <<>>
      /\ Len(InPlaceOutputs) > 0) => FallbackTaken

\* C15: when the fallback is taken (no port came from the Returns
\* section), at most one port is returned, for every Parameters list.
C15_FallbackSolePort ==
  (OutputReturned /\ Len(DeclaredReturns) = 0) =>
    Len(output_ports.value) <= 1

\* the k-th Returns entry is marked optional
OptionalReturn(k) ==
  Occurrences(docstring.Returns[k].type, <<"o", "p", "t", "i", "o", "n", "a", "l">>) # {}

RequiredReturns == {k \in 1..Len(docstring.Returns) : ~OptionalReturn(k)}

\* C16: a Returns entry marked optional is dropped entirely.  No returned
\* port stands for one of its identifiers, and its type is never
\* normalized: an error about a Returns entry is about an entry that is not
\* marked optional, so a Returns section with optional entries only raises
\* no such error, resolvable or not.
C16_OptionalReturnDropped ==
  /\ (OutputReturned /\ ~FallbackTaken) =>
       \A j \in 1..Len(output_ports.value) :
         \E k \in RequiredReturns :
           \E i \in 1..Len(Identifiers(docstring.Returns[k].name)) :
             Identifiers(docstring.Returns[k].name)[i] =
               output_ports.value[j].name
  /\ (OutputRaised /\ output_ports.error.msg # "Malformed type") =>
       /\ RequiredReturns # {}
       /\ output_ports.error.msg = "Malformed output type |{}: <{}>|" =>
            \E k \in RequiredReturns :
              output_ports.error.args =
                <<docstring.Returns[k].name, docstring.Returns[k].type>>

\* an optional entry of unresolvable type before an entry that is emitted
C16_Witness ==
  /\ OutputReturned
  /\ Len(docstring.Returns) = 2
  /\ docstring.Returns[1].type = <<"a", "a", "r", "d", "v", "a", "r", "k", ",", " ", "o", "p", "t", "i", "o", "n", "a", "l">>
  /\ Len(output_ports.value) = 1
  /\ output_ports.value[1].name = docstring.Returns[2].name

\* the entries of the docstring as the error messages name them
NamedEntries ==
  {<<ColonRecovery(docstring.Parameters[k]).the_name,
     ColonRecovery(docstring.Parameters[k]).the_type>> :
     k \in 1..Len(docstring.Parameters)}
  \cup
  {<<docstring.Returns[k].name, docstring.Returns[k].type>> :
     k \in 1..Len(docstring.Returns)}

UnresolvableRaised(outcome) ==
  /\ outcome.status = "raised"
  /\ outcome.error.exc = "AutowrapError"
  /\ outcome.error.msg # "A Port with no name"

\* C17: the error raised for an entry whose type is Unresolvable, in the
\* Parameters section, in the Returns section or in the Returns fallback,
\* carries the name and the raw type text of that entry, and no port list
\* comes with it.
C17_UnresolvableNamesEntry ==
  \A outcome \in {input_ports, output_ports} :
    UnresolvableRaised(outcome) =>
      /\ outcome.error.args \in NamedEntries
      /\ outcome.value = <<>>

NamesUnique(ports) ==
  \A i, j \in 1..Len(ports) : ports[i].name = ports[j].name => i = j

\* C19: the port names are unique within the input port list and within
\* the output port list, for every docstring.
C19_PortNamesUnique ==
  /\ InputReturned => NamesUnique(input_ports.value)
  /\ OutputReturned => NamesUnique(output_ports.value)

\* C20: every port whose parameter has a reflected default is marked
\* optional, whatever its category, container and variant categories
\* included.
C20_DefaultMakesOptional ==
  InputAligned =>
    \A k \in 1..Len(Declared) :
      Declared[k].id \in DOMAIN _extract_default_vals(func) =>
        input_ports.value[k].optional

(***************************************************************************)
(* scrape_function and scrape_module                                       *)
(*                                                                         *)
(* A module member is [name, type, docstring, func]: the attribute name,   *)
(* the name of type(atr), and for a callable what docstring_func gives    *)
(* for it and the callable itself.                                         *)
(***************************************************************************)
Callable(atr) == atr.type \in {"function", "ufunc", "type", "ABCMeta"}

\* the dict scrape_function returns, or the exception of the port definer
\* that raised
scrape_function(atr) ==
  CHOOSE outcome \in
    {IF ip.status = "raised" THEN ip
     ELSE IF op.status = "raised" THEN op
     ELSE Returned([input_ports |-> ip.value,
                    output_ports |-> op.value,
                    f_type |-> IF atr.type = "ufunc" THEN "ufunc" ELSE "func",
                    func_name |-> atr.name]) :
       ip \in {define_input_ports(atr.docstring, atr.func)},
       op \in {define_output_ports(atr.docstring)}} : TRUE

\* the first loop of scrape_module: the names in funcs_to_wrap
funcs_to_wrap(mod) ==
  SelectSeq(mod.members,
            LAMBDA atr :
              /\ ~(mod.exclude_private /\ Len(atr.name) > 0 /\ atr.name[1] = "_")
              /\ atr.name \notin mod.black_list
              /\ ~\E k \in mod.exclude_markers : Occurrences(atr.name, k) # {}
              /\ ~(~Callable(atr) \/ atr.type \in {"type", "ABCMeta"}))

\* the second loop stopping at the first callable that fails
RECURSIVE ScrapeAll_stops_at_failure(_, _, _)
ScrapeAll_stops_at_failure(ftw, k, acc) ==
  IF k > Len(ftw) THEN acc
  ELSE CHOOSE ret_ \in
         {IF spec_dict.status = "raised" THEN acc
          ELSE ScrapeAll_stops_at_failure(
                 ftw, k + 1, (ftw[k].name :> spec_dict.value) @@ acc) :
            spec_dict \in {scrape_function(ftw[k])}} : TRUE

\* the second loop of scrape_module: ret after the names from the k-th on
RECURSIVE ScrapeAll(_, _, _)
ScrapeAll(ftw, k, acc) ==
  IF k > Len(ftw) THEN acc
  ELSE CHOOSE ret_ \in
         {ScrapeAll(ftw, k + 1,
                    IF spec_dict.status = "raised" THEN acc
                    ELSE (ftw[k].name :> spec_dict.value) @@ acc) :
            spec_dict \in {scrape_function(ftw[k])}} : TRUE

scrape_module(mod) == Returned(ScrapeAll(funcs_to_wrap(mod), 1, <<>>))

(***************************************************************************)
(* Inputs: the test module scrape_test_source, with the docstrings of     *)
(* some of its functions replaced by one that cannot be scraped            *)
(***************************************************************************)
MaxBlackList == 1

Member(name, type, doc, f) ==
  [name |-> name, type |-> type, docstring |-> doc, func |-> f]

eat_porridge ==
  Member(<<"e", "a", "t", "_", "p", "o", "r", "r", "i", "d", "g", "e">>, "function",
         [Parameters |->
            <<[name |-> <<"t", "e", "m", "p", "e", "r", "a", "t", "u", "r", "e", ",", " ", "p", "o", "r", "r", "i", "d", "g", "e">>,
               type |-> <<"{", "'", "t", "o", "o", " ", "h", "o", "t", "'", ",", " ", "'", "t", "o", "o", " ", "c", "o", "l", "d", "'", ",", " ", "'", "j", "u", "s", "t", " ", "r", "i", "g", "h", "t", "'", "}">>,
               desc |-> <<<<"T", "h", "e", " ", "t", "e", "m", "p", "e", "r", "a", "t", "u", "r", "e", " ", "o", "f", " ", "t", "h", "e", " ", "p", "o", "r", "r", "i", "d", "g", "e">>>>],
              [name |-> <<"o", "u", "t", "p", "u", "t">>, type |-> <<"b", "o", "o", "l">>,
               desc |-> <<<<"I", "f", " ", "w", "e", " ", "s", "h", "o", "u", "l", "d", " ", "e", "a", "t", " ", "t", "h", "e", " ", "p", "o", "r", "r", "i", "d", "g", "e">>>>]>>,
          Returns |-> <<>>],
         [names |-> <<<<"t", "h", "i", "s", "_", "s", "u", "c", "k", "s">>, <<"t", "e", "m", "p", "e", "r", "a", "t", "u", "r", "e">>, <<"w", "t", "f">>>>,
          d_vals |-> <<>>, attrs |-> <<>>, inspectable |-> TRUE])

porridge_for_the_bears ==
  Member(<<"p", "o", "r", "r", "i", "d", "g", "e", "_", "f", "o", "r", "_", "t", "h", "e", "_", "b", "e", "a", "r", "s">>, "function",
         [Parameters |->
            <<[name |-> <<"w", "e", "r", "e", "_", "y", "o", "u", "_", "r", "o", "b", "b", "e", "d">>, type |-> <<"b", "o", "o", "l">>,
               desc |-> <<<<"T", "h", "e", " ", "q", "u", "e", "s", "t", "i", "o", "n", " ", "i", "s", " ", "i", "n", " ", "t", "h", "e", " ", "t", "i", "t", "l", "e">>>>]>>,
          Returns |->
            <<[name |-> <<"p", "_", "b", "e", "a", "r", "_", "e", "m", "o", ",", " ", "m", "_", "b", "e", "a", "r", "_", "e", "m", "o", ",", " ", "b", "_", "b", "e", "a", "r", "_", "e", "m", "o">>,
               type |-> <<"s", "t", "r", "i", "n", "g">>,
               desc |-> <<<<"T", "h", "e", " ", "e", "m", "o", "t", "i", "o", "n", "a", "l", " ", "s", "t", "a", "t", "u", "s", " ", "o", "f", " ", "t", "h", "e", " ", "t", "h", "r", "e", "e", " ", "b", "e", "a", "r", "s">>>>]>>],
         [names |-> <<<<"w", "e", "r", "e", "_", "y", "o", "u", "_", "r", "o", "b", "b", "e", "d">>>>,
          d_vals |-> <<>>, attrs |-> <<>>, inspectable |-> TRUE])

has_defaults ==
  Member(<<"h", "a", "s", "_", "d", "e", "f", "a", "u", "l", "t", "s">>, "function",
         [Parameters |->
            <<[name |-> <<"a">>, type |-> <<"o", "b", "j", "e", "c", "t", ",", " ", "o", "p", "t", "i", "o", "n", "a", "l">>,
               desc |-> <<<<"d", "e", "f", "a", "u", "l", "t", "s", " ", "t", "o", " ", "N", "o", "n", "e">>>>],
              [name |-> <<"b">>, type |-> <<"i", "n", "t", ",", " ", "o", "p", "t", "i", "o", "n", "a", "l">>,
               desc |-> <<<<"d", "e", "f", "a", "u", "l", "t", "s", " ", "t", "o", " ", "1">>>>],
              [name |-> <<"c">>, type |-> <<"s", "t", "r", ",", " ", "o", "p", "t", "i", "o", "n", "a", "l">>,
               desc |-> <<<<"D", "e", "f", "a", "u", "l", "t", "s", " ", "t", "o", " ", "'", "s", "t", "r", "'">>>>],
              [name |-> <<"d">>, type |-> <<"t", "u", "p", "l", "e", ",", " ", "o", "p", "t", "i", "o", "n", "a", "l">>,
               desc |-> <<<<"D", "e", "f", "a", "u", "l", "t", "s", " ", "t", "o", " ", "(", ")">>>>],
              [name |-> <<"e">>, type |-> <<"{", "'", "a", "'", ",", " ", "'", "b", "'", ",", " ", "'", "c", "'", "}">>,
               desc |-> <<<<"A", "n", " ", "e", "n", "u", "m">>>>]>>,
          Returns |-> <<>>],
         [names |-> <<<<"a">>, <<"b">>, <<"c">>, <<"d">>, <<"e">>>>,
          d_vals |-> <<PyNone, One, PyStrValue(<<"s", "t", "r">>), EmptyTuple, PyNone>>,
          attrs |-> (<<"e">> :> <<PyStrValue(<<"a">>), PyStrValue(<<"b">>),
                                PyStrValue(<<"c">>)>>),
          inspectable |-> TRUE])

_private == Member(<<"_", "p", "r", "i", "v", "a", "t", "e">>, "function", NoDocstring, NoFunc)

DontWrapMe == Member(<<"D", "o", "n", "t", "W", "r", "a", "p", "M", "e">>, "type", NoDocstring, NoFunc)

\* a class whose metaclass is abc.ABCMeta
AbstractBase == Member(<<"A", "b", "s", "t", "r", "a", "c", "t", "B", "a", "s", "e">>, "ABCMeta", NoDocstring, NoFunc)

\* the module's docstring, a str
__doc__ == Member(<<"_", "_", "d", "o", "c", "_", "_">>, "str", NoDocstring, NoFunc)

\* a docstring on which define_input_ports raises
Unscrapable ==
  [Parameters |-> <<Entry(<<"b">>, <<"a", "a", "r", "d", "v", "a", "r", "k">>)>>, Returns |-> <<>>]

\* dir(mod): the names in sorted order
scrape_test_source ==
  <<AbstractBase, DontWrapMe, __doc__, _private, eat_porridge, has_defaults,
    porridge_for_the_bears>>

MemberNames == {scrape_test_source[k].name : k \in 1..Len(scrape_test_source)}

Spoil(members, broken) ==
  [k \in 1..Len(members) |->
     IF members[k].name \in broken
     THEN [members[k] EXCEPT !.docstring = Unscrapable]
     ELSE members[k]]

Markers == {<<"p", "o", "r", "r", "i", "d", "g", "e">>, <<"_">>}

Modules ==
  { [members |-> Spoil(scrape_test_source, broken), black_list |-> bl,
     exclude_markers |-> em, exclude_private |-> ep] :
      broken \in SUBSET {<<"e", "a", "t", "_", "p", "o", "r", "r", "i", "d", "g", "e">>, <<"h", "a", "s", "_", "d", "e", "f", "a", "u", "l", "t", "s">>,
                         <<"p", "o", "r", "r", "i", "d", "g", "e", "_", "f", "o", "r", "_", "t", "h", "e", "_", "b", "e", "a", "r", "s">>},
      bl \in {b \in SUBSET MemberNames : Cardinality(b) <= MaxBlackList},
      em \in {{}} \cup {{m} : m \in Markers},
      ep \in BOOLEAN }

(***************************************************************************)
(* One call of scrape_module                                               *)
(***************************************************************************)
InitModule ==
  /\ module \in Modules
  /\ ret = NotCalled
  /\ ParsersIdle
  /\ PortsIdle
  /\ TruncateIdle

CallScrapeModule ==
  /\ ret.status = "not called"
  /\ ret' = scrape_module(module)
  /\ UNCHANGED <<module, parserVars, portVars, truncateVars>>

NextModule == CallScrapeModule

SpecModule == InitModule /\ [][NextModule]_vars

(***************************************************************************)
(* Vocabulary of the claims about scrape_module                            *)
(***************************************************************************)
Members == {module.members[k] : k \in 1..Len(module.members)}

StartsWithUnderscore(name) == Len(name) > 0 /\ Head(name) = "_"

Contains(name, marker) ==
  \E i \in 0..(Len(name) - Len(marker)) :
    SubSeq(name, i + 1, i + Len(marker)) = marker

\* the candidate passes the filters: not private when private names are
\* excluded, not black-listed, without any marker, callable, not a class
PassesFilters(atr) ==
  /\ module.exclude_private => ~StartsWithUnderscore(atr.name)
  /\ atr.name \notin module.black_list
  /\ \A marker \in module.exclude_markers : ~Contains(atr.name, marker)
  /\ atr.type \in {"function", "ufunc"}

ScrapeSucceeds(atr) == scrape_function(atr).status = "returned"

\* C18: scrape_module returns, and the keys of the mapping it returns are
\* exactly the names of the candidates that pass the filters and whose
\* scrape_function succeeds, each with the dict scrape_function gave for
\* it; a callable that fails is left out and the others are still there.
C18_KeysAreScrapedCandidates ==
  ret.status # "not called" =>
    /\ ret.status = "returned"
    /\ DOMAIN ret.value =
         {atr.name : atr \in {m \in Members :
                                PassesFilters(m) /\ ScrapeSucceeds(m)}}
    /\ \A name \in DOMAIN ret.value : ret.value[name].func_name = name

\* eat_porridge fails and is left out, has_defaults after it is scraped,
\* the black-listed porridge_for_the_bears and the private and class
\* members are not candidates
C18_Witness ==
  /\ ret.status = "returned"
  /\ module.black_list = {<<"p", "o", "r", "r", "i", "d", "g", "e", "_", "f", "o", "r", "_", "t", "h", "e", "_", "b", "e", "a", "r", "s">>}
  /\ module.exclude_private
  /\ \E m \in Members : m.name = <<"e", "a", "t", "_", "p", "o", "r", "r", "i", "d", "g", "e">> /\ ~ScrapeSucceeds(m)
  /\ DOMAIN ret.value = {<<"h", "a", "s", "_", "d", "e", "f", "a", "u", "l", "t", "s">>}

(***************************************************************************)
(* Claims about defaults, reserved names, demotion and recovery            *)
(***************************************************************************)
\* the number of trailing parameters of the callable that have a default
TrailingRun == IF func.inspectable THEN Len(func.d_vals) ELSE 0

\* the positions, among the defaults, of the trailing parameter called id
DefaultPositions(id) ==
  {j \in 1..TrailingRun : func.names[Len(func.names) - TrailingRun + j] = id}

ScalarLike(p) ==
  p.signature \notin {"basic:List", "basic:Variant", "basic:Dictionary"}

\* C21: after define_input_ports returns, a port carries a default exactly
\* when its identifier is one of the trailing defaulted parameters of the
\* callable and its signature is none of basic:List, basic:Variant and
\* basic:Dictionary, and the default it carries is that parameter's.
C21_DefaultIffTrailingScalar ==
  InputAligned =>
    \A k \in 1..Len(Declared) :
      LET p == input_ports.value[k]
          at == DefaultPositions(Declared[k].id)
      IN  /\ "default" \in DOMAIN p <=> (at # {} /\ ScalarLike(p))
          /\ "default" \in DOMAIN p => \E j \in at : p.default = func.d_vals[j]

\* one port with its default, and one of a defaulted parameter left without
\* because it is a container
C21_Witness ==
  /\ InputAligned
  /\ \E k \in 1..Len(Declared) :
       /\ "default" \in DOMAIN input_ports.value[k]
       /\ input_ports.value[k].default = One
  /\ \E k \in 1..Len(Declared) :
       /\ DefaultPositions(Declared[k].id) # {}
       /\ "default" \notin DOMAIN input_ports.value[k]

\* the declared parameters with a reserved identifier
ReservedDeclared == {k \in 1..Len(Declared) : Declared[k].id \in vt_reserved}

\* C22: the port of a reserved identifier is named with the escape prefix,
\* and what is looked up on the callable for it, the default value and the
\* enum attribute, is looked up under the identifier without the prefix: a
\* default of the parameter reaches a scalar-like port, and an attribute
\* of the callable called like the parameter makes the port an enum with
\* the attribute's values.
C22_ReservedLookupsUnprefixed ==
  InputAligned =>
    \A k \in ReservedDeclared :
      LET p == input_ports.value[k]
          id == Declared[k].id
      IN  /\ p.name = <<"_">> \o id
          /\ (DefaultPositions(id) # {} /\ ScalarLike(p)) =>
               "default" \in DOMAIN p
          /\ id \in DOMAIN func.attrs =>
               IsEnumPort(p) /\ p.values = func.attrs[id]

\* what _enum_type makes of the type of the k-th declared parameter, once
\* the name is recovered and the optional marker taken off
DeclaredEnum(k) ==
  LET cr == ColonRecovery(docstring.Parameters[Declared[k].entry])
  IN  _enum_type(_type_optional(cr.the_type).type_str)

\* the k-th declared parameter is an enum of string literals
StrEnum(en) == en.raised = NoError /\ en.is_enum /\ en.type_out = <<"s", "t", "r">>

\* the category of the literals of an enum joined with " or "
JoinedCategory(en) == _normalize_type(Join(en.enum_list, <<" ", "o", "r", " ">>))

\* C23: after define_input_ports returns, the port of a parameter whose
\* type is an enum of string literals is demoted when the literals joined
\* with " or " normalize to a category: it has the signature of that
\* category and nothing of the docstring's enum (it is an enum port only
\* through an attribute of the callable, with the attribute's values);
\* when the joined literals do not normalize it is an enum port of
\* category str with the docstring's literals.  A Returns entry of such a
\* type gives a port with the signature of the category of the literals.
C23_AbusedEnumDemoted ==
  /\ InputAligned =>
       \A k \in 1..Len(Declared) :
         StrEnum(DeclaredEnum(k)) =>
           LET p == input_ports.value[k]
               en == DeclaredEnum(k)
               has_attr == p.name \in DOMAIN func.attrs
           IN  IF JoinedCategory(en) # None
               THEN /\ p.signature = sig_map[JoinedCategory(en)]
                    /\ IsEnumPort(p) <=> has_attr
                    /\ "entry_type" \in DOMAIN p <=> has_attr
                    /\ has_attr => p.values = func.attrs[p.name]
               ELSE /\ p.signature = sig_map["str"]
                    /\ IsEnumPort(p)
                    /\ ~has_attr =>
                         p.values = [j \in 1..Len(en.enum_list) |->
                                       PyStrValue(en.enum_list[j])]
  /\ (OutputReturned /\ ~FallbackTaken) =>
       \A k \in 1..Len(output_ports.value) :
         LET en == _enum_type(docstring.Returns[DeclaredReturns[k].entry].type)
         IN  (StrEnum(en) /\ JoinedCategory(en) # None) =>
               output_ports.value[k].signature = sig_map[JoinedCategory(en)]

\* "{array, scalar}" gives an array port that is not an enum
C23_Witness ==
  /\ InputAligned
  /\ Len(docstring.Parameters) = 1
  /\ docstring.Parameters[1].name = <<"a">>
  /\ docstring.Parameters[1].type = <<"{", "a", "r", "r", "a", "y", ",", " ", "s", "c", "a", "l", "a", "r", "}">>
  /\ Len(input_ports.value) = 1
  /\ input_ports.value[1].signature = sig_map["array"]
  /\ "entry_type" \notin DOMAIN input_ports.value[1]
  /\ "values" \notin DOMAIN input_ports.value[1]

\* "{'x', 'y'}" stays an enum of category str
C23_WitnessKept ==
  /\ InputAligned
  /\ Len(docstring.Parameters) = 1
  /\ docstring.Parameters[1].name = <<"a">>
  /\ docstring.Parameters[1].type = <<"{", "'", "x", "'", ",", " ", "'", "y", "'", "}">>
  /\ input_ports.value[1].signature = "basic:String"
  /\ input_ports.value[1].values = <<X, Y>>

InputCalled == input_ports.status # "not called"

\* the docstring without the Parameters entries named "output" or "out"
WithoutInPlace ==
  [docstring EXCEPT !.Parameters =
     SelectSeq(@, LAMBDA entry : entry.name \notin {<<"o", "u", "t", "p", "u", "t">>, <<"o", "u", "t">>})]

\* C24: a Parameters entry named "output" or "out" is skipped by
\* define_input_ports before anything of it is read: the outcome of the
\* call, ports or error, is the outcome for the docstring without these
\* entries, whatever their types, and no error is about such an entry.
C24_InPlaceEntrySkipped ==
  /\ InputCalled => input_ports = define_input_ports(WithoutInPlace, func)
  /\ (InputRaised /\ Len(input_ports.error.args) = 2) =>
       input_ports.error.args[1] \notin {<<"o", "u", "t", "p", "u", "t">>, <<"o", "u", "t">>}
  /\ (InputCalled /\ WithoutInPlace.Parameters = <<>>) =>
       input_ports = Returned(<<>>)

\* an entry "output" of unresolvable type, and no error
C24_Witness ==
  /\ InputReturned
  /\ Len(docstring.Parameters) = 1
  /\ docstring.Parameters[1].name = <<"o", "u", "t", "p", "u", "t">>
  /\ docstring.Parameters[1].type = <<"a", "a", "r", "d", "v", "a", "r", "k">>
  /\ input_ports.value = <<>>

\* a Parameters entry with its name cut at the first colon when its type
\* is empty: what is before the colon is the name, what is after the type
AtFirstColon(entry) ==
  IF entry.type = <<>> /\ Occurrences(entry.name, <<":">>) # {}
  THEN [entry EXCEPT !.name = Split1(entry.name, <<":">>)[1],
                     !.type = Split1(entry.name, <<":">>)[2]]
  ELSE entry

Recovered ==
  [docstring EXCEPT !.Parameters =
     [k \in 1..Len(docstring.Parameters) |->
        AtFirstColon(docstring.Parameters[k])]]

\* C25: an entry with an empty type and a name with a colon is read as the
\* name before the first colon with everything after it as the type,
\* further colons included: the outcome of define_input_ports is the
\* outcome for the docstring with these entries cut at the first colon,
\* and the recovery itself raises no error.
C25_SplitAtFirstColon ==
  InputCalled =>
    /\ input_ports = define_input_ports(Recovered, func)
    /\ ~(InputRaised /\ input_ports.error.msg = "too many values to unpack")

\* C26: a docstring without a Parameters section (numpydoc then gives the
\* empty list for docstring['Parameters']) makes define_input_ports raise;
\* it never returns an empty port list for it.
C26_MissingParametersRaises ==
  (InputCalled /\ docstring.Parameters = <<>>) => InputRaised

\* C29: no Parameters entry is emitted twice within one scrape, as an input
\* port and as a return port of the fallback: when all the return ports
\* come from the fallback, none of them has the name of an input port,
\* whatever the spelling and the letter case of the entry's name.
C29_NoEntryOnBothSides ==
  (InputReturned /\ OutputReturned /\ Len(DeclaredReturns) = 0) =>
    \A i \in 1..Len(input_ports.value), j \in 1..Len(output_ports.value) :
      input_ports.value[i].name # output_ports.value[j].name

OutputCalled == output_ports.status # "not called"

\* the type of a Parameters entry resolves: no error of the recovery or of
\* the enum, and a category
Resolvable(entry) ==
  LET cr == ColonRecovery(entry)
      et == EntryType(_type_optional(cr.the_type).type_str)
  IN  cr.unpacked /\ et.raised = NoError /\ et.normed_type # None

\* the Parameters entries define_input_ports reads the description of
ReadEntries ==
  {k \in 1..Len(docstring.Parameters) :
     /\ docstring.Parameters[k].name \notin {<<"o", "u", "t", "p", "u", "t">>, <<"o", "u", "t">>}
     /\ Resolvable(docstring.Parameters[k])}

\* the docstring with every description replaced by d
Described(d) ==
  [Parameters |-> [k \in 1..Len(docstring.Parameters) |->
                     [docstring.Parameters[k] EXCEPT !.desc = d]],
   Returns |-> [k \in 1..Len(docstring.Returns) |->
                  [docstring.Returns[k] EXCEPT !.desc = d]]]

\* C30: a Parameters entry with a resolvable type and no description line
\* makes define_input_ports raise, with the IndexError of the missing first
\* line when it is the first entry of the section, and no port list is
\* returned; define_output_ports does not read the descriptions: its
\* outcome is the same with and without them, so the same entry under
\* Returns gives its port.
C30_DescriptionLineRequired ==
  /\ InputCalled =>
       \A k \in ReadEntries :
         docstring.Parameters[k].desc = <<>> =>
           /\ InputRaised
           /\ input_ports.value = <<>>
           /\ k = 1 => input_ports.error.exc = "IndexError"
  /\ OutputCalled =>
       /\ output_ports = define_output_ports(Described(<<>>))
       /\ output_ports = define_output_ports(Described(Description))

\* the same entry without a description under Parameters and under
\* Returns: an IndexError on one side, the port on the other
C30_Witness ==
  /\ docstring.Parameters = <<Undescribed>>
  /\ docstring.Returns = <<Undescribed>>
  /\ InputRaised
  /\ input_ports.error.exc = "IndexError"
  /\ OutputReturned
  /\ output_ports.value = <<[name |-> <<"r">>, signature |-> "basic:Integer"]>>

(***************************************************************************)
(* The split point of a compound phrase                                    *)
(***************************************************************************)
\* offsets (0-based) at which w occurs in s as a whole word
WordOccurrences(s, w) ==
  {i \in Occurrences(s, w) :
     /\ i = 0 \/ s[i] \notin WordChars
     /\ i + Len(w) = Len(s) \/ s[i + Len(w) + 1] \notin WordChars}

\* s cut at the first whole-word occurrence of w: the pair <<left, right>>
SplitAtWord(s, w) ==
  LET i == CHOOSE i \in WordOccurrences(s, w) :
             \A j \in WordOccurrences(s, w) : i <= j
  IN  <<SubSeq(s, 1, i), SubSeq(s, i + Len(w) + 1, Len(s))>>

\* C28: _normalize_type cuts a phrase with the whole word "or" at the first
\* whole-word occurrence of "or", and one with the whole word "of" (and no
\* "or") at the first whole-word occurrence of "of": the result is what
\* the two sides of that cut give, an "or" / "of" inside another word
\* never being the cut; "for int or aardvark" is cut into "for int" and
\* "aardvark", neither of which resolves.
C28_SplitAtWholeWord ==
  /\ (Normalized /\ WordOccurrences(Trimmed, <<"o", "r">>) # {}) =>
       /\ Split1(Trimmed, <<"o", "r">>) = SplitAtWord(Trimmed, <<"o", "r">>)
       /\ norm_type = _type_precedence(SplitAtWord(Trimmed, <<"o", "r">>)[1],
                                       SplitAtWord(Trimmed, <<"o", "r">>)[2])
  /\ (Normalized /\ WordOccurrences(Trimmed, <<"o", "r">>) = {}
      /\ WordOccurrences(Trimmed, <<"o", "f">>) # {}) =>
       /\ Split1(Trimmed, <<"o", "f">>) = SplitAtWord(Trimmed, <<"o", "f">>)
       /\ norm_type = _of_proc(SplitAtWord(Trimmed, <<"o", "f">>)[1],
                               SplitAtWord(Trimmed, <<"o", "f">>)[2])
  /\ (Normalized /\ type_str = <<"f", "o", "r", " ", "i", "n", "t", " ", "o", "r", " ", "a", "a", "r", "d", "v", "a", "r", "k">>) =>
       /\ _normalize_type(<<"f", "o", "r", " ", "i", "n", "t">>) = None
       /\ norm_type = None

(***************************************************************************)
(* One call of _truncate_description on the description lines of an entry *)
(***************************************************************************)
MaxLineWords == 3
MaxWordLimit == 3

\* the words of a first line; the empty word stands between two spaces
\* that follow each other
LineWords == {<<"l", "e", "n", "g", "t", "h">>, <<"o", "f">>, <<>>}
FirstLines == UNION {Joined(LineWords, {<<" ">>}, n) : n \in 1..MaxLineWords}
LaterLines == {<<"a", "c", "t", "u", "a", "l", "l", "y", " ", "a", " ", "l", "i", "s", "t", " ", "o", "f", " ", "s", "t", "r", "i", "n", "g", "s", ".">>, <<>>}

TruncateInputs ==
  {<<>>} \cup {<<first>> : first \in FirstLines}
         \cup {<<first, later>> : first \in FirstLines, later \in LaterLines}

InitTruncate ==
  /\ description \in TruncateInputs
  /\ word_limit \in 1..MaxWordLimit
  /\ truncated = NotCalled
  /\ ParsersIdle
  /\ PortsIdle
  /\ ModuleIdle

\* original_description[0] raises IndexError on an empty list
CallTruncateDescription ==
  /\ truncated.status = "not called"
  /\ truncated' =
       IF Len(description) = 0
       THEN Raised([exc |-> "IndexError", msg |-> "list index out of range",
                    args |-> <<>>])
       ELSE Returned(_truncate_description(description, word_limit))
  /\ UNCHANGED <<description, word_limit, parserVars, portVars, moduleVars>>

NextTruncate == CallTruncateDescription

SpecTruncate == InitTruncate /\ [][NextTruncate]_vars

\* the number of words of a line that is split at every single space
NumWords(line) == Cardinality(Occurrences(line, <<" ">>)) + 1

IsPrefix(s, t) == Len(s) <= Len(t) /\ SubSeq(t, 1, Len(s)) = s

\* C27: the result of _truncate_description is made from the first line
\* alone, split at every single space: the first line itself when it has
\* at most word_limit words, otherwise its first word_limit words with the
\* spaces between them, that is the prefix of the first line that ends
\* before the space after the word_limit-th word.  It is always a prefix
\* of the first line with at most word_limit words, and the later lines
\* change nothing.
C27_FirstWordsOfFirstLine ==
  truncated.status = "returned" =>
    LET first == description[1]
        result == truncated.value
    IN  /\ IsPrefix(result, first)
        /\ NumWords(result) <= word_limit
        /\ NumWords(first) <= word_limit => result = first
        /\ NumWords(first) > word_limit =>
             /\ NumWords(result) = word_limit
             /\ first[Len(result) + 1] = " "
        /\ \A later \in LaterLines :
             _truncate_description(<<first, later>>, word_limit) = result

\* a first line with two spaces in a row cut after its second word, the
\* empty one, with a second line present
C27_Witness ==
  /\ truncated.status = "returned"
  /\ Len(description) = 2
  /\ description[1] = <<"l", "e", "n", "g", "t", "h", " ", " ", "o", "f">>
  /\ description[2] # <<>>
  /\ word_limit = 2
  /\ truncated.value = <<"l", "e", "n", "g", "t", "h", " ">>

============================================================================
